---- MODULE Spec2Model ----
(***************************************************************************)
(* Bovali AI Studio: the asset encoder/decoder, the batch orchestrator,    *)
(* the three workflow state machines, the history and export caches and    *)
(* the conversational editor of App.tsx / services/geminiService.ts.       *)
(*                                                                         *)
(* The module holds several specifications over one set of variables:      *)
(*   SpecCodec     data-URI encoding and decoding (pure functions)         *)
(*   SpecBatch     runBatchGeneration with its concurrent member calls     *)
(*   SpecExport    the export cache and its stored copy                    *)
(*   SpecHistory   the history caches under their insertion sites          *)
(*   SpecWorkflow  the three workflows under their controls                *)
(*   SpecChat      the chat over the three workflows                       *)
(*   SpecRequest   the parts of the requests of the Generator and of       *)
(*                 Pattern Studio                                          *)
(*   SpecMode      the composition modes and the tile dimensions           *)
(*   SpecTurns     the chat form                                           *)
(*   SpecConfig    the submit actions under a configuration error          *)
(*   SpecPrompt    the instruction text under the dimension inputs         *)
(*   SpecCatalogue the catalogue browser over the remote store             *)
(*   SpecDialogue  the chat turns under a backend that answers every call  *)
(*   SpecSubmit    the submit buttons of the three workflows               *)
(* Each specification moves only the variables of its component; the       *)
(* others keep their initial value.                                        *)
(***************************************************************************)
EXTENDS Integers, Sequences, FiniteSets, TLC

(***************************************************************************)
(* Bounds of the model.                                                    *)
(***************************************************************************)
MaxMimeLen == 3
MaxBytes == 2

\* the variation count is clamped to [1,4] by the count input of the Generator
MaxCount == 4

\* images the backend can return, and parts per response
MaxImg == 2
MaxParts == 2

\* entries an export session can draw from
MaxExportImg == 3
\* files a user uploads into a pattern slot
MaxFile == 3
\* materials in a material list
MaxMaterials == 1
\* chat turns a user submits
MaxTurns == 1
\* materials of a request whose part order is examined
MaxSent == 2
\* object URLs alive at once
MaxHandles == 4
\* chat turns a user submits in a row
MaxBurst == 2
\* catalogue calls in flight at once
MaxFetch == 2

NULL == "null"

(***************************************************************************)
(* State.                                                                  *)
(***************************************************************************)
VARIABLES
  \* asset encoder / decoder
  cAsset, cUrl, cFile, cParsed, cPhase,
  \* batch orchestrator
  bCount, bResults, bBatch,
  \* App: configuration and active workflow
  activeTab, apiKeyError, chatRef,
  \* App: Generator
  generationMode, renderShot, pattern, materials, outputImages, loading, error,
  numberOfVariations, tileWidth, tileHeight,
  \* App: Extractor
  sourceImage, extractionType, processedImage, isProcessing, processingError,
  \* App: Pattern Studio
  patternOutline, patternMaterials, patternReference, patternOutput,
  isPatternGenerating, patternError,
  \* App: chat
  isBotTyping, messages,
  \* App: history caches and export cache
  renderShotHistory, patternHistory, materialHistory, exportedImages,
  \* the browser's local storage (key 'bovaliExportedImages') and whether the
  \* last run of the save effect threw
  localStorage, saveFailed,
  \* history variable: the image of the export request handled last, 0 when the
  \* last operation on the export cache was not an export
  lastExport,
  \* requests in flight: generator batches, extractions, pattern syntheses,
  \* chat turns and FileReader reads
  genCalls, extCalls, patCalls, chatCalls, readCalls,
  \* the browser's blob URL store: the number of object URLs created and not
  \* revoked
  objectURLs,
  \* App: the unit of the tile dimensions, and the dimensions of the source
  \* photo of the Extractor with their unit
  tileUnit, sourceWidth, sourceHeight, sourceUnit,
  \* DriveCatalogueModal: its isOpen prop, its state (error is driveError here),
  \* and its calls in flight: fetchContents runs and file downloads
  isOpen, folderStack, folders, files, isLoading, driveError, selectedFileId,
  fetches, downloads

codecVars == <<cAsset, cUrl, cFile, cParsed, cPhase>>
batchVars == <<bCount, bResults, bBatch>>
cfgVars == <<activeTab, apiKeyError, chatRef>>
genVars == <<generationMode, renderShot, pattern, materials, outputImages, loading, error,
             numberOfVariations, tileWidth, tileHeight>>
extVars == <<sourceImage, extractionType, processedImage, isProcessing, processingError>>
patVars == <<patternOutline, patternMaterials, patternReference, patternOutput,
             isPatternGenerating, patternError>>
chatVars == <<isBotTyping, messages, chatCalls>>
histVars == <<renderShotHistory, patternHistory, materialHistory>>
expVars == <<exportedImages, localStorage, saveFailed, lastExport>>
callVars == <<genCalls, extCalls, patCalls, readCalls>>
dimVars == <<tileUnit, sourceWidth, sourceHeight, sourceUnit>>
appVars == <<cfgVars, genVars, extVars, patVars, chatVars, histVars, expVars, callVars,
             objectURLs, dimVars>>
driveVars == <<isOpen, folderStack, folders, files, isLoading, driveError, selectedFileId,
               fetches, downloads>>
vars == <<codecVars, batchVars, appVars, driveVars>>

(***************************************************************************)
(* Text helpers: a string is a sequence of one-character strings.          *)
(***************************************************************************)
RECURSIVE SeqsUpTo(_, _)
SeqsUpTo(S, n) ==
  IF n = 0 THEN {<<>>}
  ELSE LET shorter == SeqsUpTo(S, n - 1)
       IN  shorter \cup {Append(s, x) : s \in {t \in shorter : Len(t) = n - 1}, x \in S}

\* index of the first occurrence of character c in s at or after position from, 0 if none
RECURSIVE IndexOf(_, _, _)
IndexOf(s, c, from) ==
  IF from > Len(s) THEN 0
  ELSE IF s[from] = c THEN from
  ELSE IndexOf(s, c, from + 1)

\* String.prototype.split(c): the list of the pieces between the separators
RECURSIVE Split(_, _)
Split(s, c) ==
  LET i == IndexOf(s, c, 1)
  IN  IF i = 0 THEN <<s>>
      ELSE <<SubSeq(s, 1, i - 1)>> \o Split(SubSeq(s, i + 1, Len(s)), c)

(***************************************************************************)
(* Asset encoder / decoder.  An image asset is a MIME type (text) and a    *)
(* byte sequence; its text form is "data:" type ";base64," payload.        *)
(***************************************************************************)
MimeChars == {"a", "/", ";", ","}
ByteVals == {0, 77, 255}
Mimes == SeqsUpTo(MimeChars, MaxMimeLen)
Payloads == SeqsUpTo(ByteVals, MaxBytes)
Assets == [type : Mimes, bytes : Payloads]

B64Alphabet ==
  << "A","B","C","D","E","F","G","H","I","J","K","L","M","N","O","P",
     "Q","R","S","T","U","V","W","X","Y","Z","a","b","c","d","e","f",
     "g","h","i","j","k","l","m","n","o","p","q","r","s","t","u","v",
     "w","x","y","z","0","1","2","3","4","5","6","7","8","9","+","/" >>

B64Char(n) == B64Alphabet[n + 1]
B64Index(c) == (CHOOSE i \in 1..64 : B64Alphabet[i] = c) - 1
IsB64Char(c) == \E i \in 1..64 : B64Alphabet[i] = c

\* base64 of a byte sequence (what FileReader.readAsDataURL and the backend put after the comma)
RECURSIVE btoa(_)
btoa(bytes) ==
  IF Len(bytes) = 0 THEN <<>>
  ELSE IF Len(bytes) = 1 THEN
    LET n == bytes[1] * 65536
    IN  <<B64Char(n \div 262144), B64Char((n \div 4096) % 64), "=", "=">>
  ELSE IF Len(bytes) = 2 THEN
    LET n == bytes[1] * 65536 + bytes[2] * 256
    IN  <<B64Char(n \div 262144), B64Char((n \div 4096) % 64), B64Char((n \div 64) % 64), "=">>
  ELSE
    LET n == bytes[1] * 65536 + bytes[2] * 256 + bytes[3]
    IN  <<B64Char(n \div 262144), B64Char((n \div 4096) % 64), B64Char((n \div 64) % 64), B64Char(n % 64)>>
        \o btoa(SubSeq(bytes, 4, Len(bytes)))

\* the decoded bytes of base64 text without padding
RECURSIVE DecodeSextets(_)
DecodeSextets(s) ==
  IF Len(s) < 2 THEN <<>>
  ELSE IF Len(s) = 2 THEN
    <<(B64Index(s[1]) * 64 + B64Index(s[2])) \div 16>>
  ELSE IF Len(s) = 3 THEN
    LET n == B64Index(s[1]) * 4096 + B64Index(s[2]) * 64 + B64Index(s[3])
    IN  <<n \div 1024, (n \div 4) % 256>>
  ELSE
    LET n == B64Index(s[1]) * 262144 + B64Index(s[2]) * 4096 + B64Index(s[3]) * 64 + B64Index(s[4])
    IN  <<n \div 65536, (n \div 256) % 256, n % 256>> \o DecodeSextets(SubSeq(s, 5, Len(s)))

\* window.atob: [ok |-> FALSE] stands for the InvalidCharacterError it throws
atob(s) ==
  LET n == Len(s)
      pad == IF n % 4 = 0 /\ n > 0 /\ s[n] = "="
             THEN (IF s[n - 1] = "=" THEN 2 ELSE 1)
             ELSE 0
      t == SubSeq(s, 1, n - pad)
  IN  IF Len(t) % 4 = 1 \/ \E i \in 1..Len(t) : ~IsB64Char(t[i])
      THEN [ok |-> FALSE, bytes |-> <<>>]
      ELSE [ok |-> TRUE, bytes |-> DecodeSextets(t)]

DataPrefix == <<"d", "a", "t", "a", ":">>
Base64Marker == <<";", "b", "a", "s", "e", "6", "4", ",">>

\* FileReader.readAsDataURL(file) and the `data:${mimeType};base64,${data}` template
fileToDataURL(file) == DataPrefix \o file.type \o Base64Marker \o btoa(file.bytes)

\* String.prototype.match(/:(.*?);/): the text between the first ':' and the
\* first ';' after it; [matched |-> FALSE] when the pattern does not occur
MatchMime(s) ==
  LET i == IndexOf(s, ":", 1)
      j == IF i = 0 THEN 0 ELSE IndexOf(s, ";", i + 1)
  IN  IF i = 0 \/ j = 0 THEN [matched |-> FALSE, group |-> <<>>]
      ELSE [matched |-> TRUE, group |-> SubSeq(s, i + 1, j - 1)]

Thrown == [ok |-> FALSE, type |-> <<>>, bytes |-> <<>>]

\* parseDataUrl: the MIME type and the base64 payload of a data URL
parseDataUrl(dataUrl) ==
  LET parts == Split(dataUrl, ",")
      mimePart == MatchMime(parts[1])
  IN  IF ~mimePart.matched THEN [ok |-> FALSE, mimeType |-> <<>>, base64 |-> <<>>]
      ELSE [ok |-> TRUE, mimeType |-> mimePart.group,
            \* parts[1] of the source; undefined when the URL has no comma
            base64 |-> IF Len(parts) >= 2 THEN parts[2] ELSE <<"u","n","d","e","f","i","n","e","d">>]

\* dataURLtoFile with the copy loop written `while (--n)`: byte 0 is never copied
dataURLtoFile_SkipsFirstByte(dataurl) ==
  LET arr == Split(dataurl, ",")
      mimeMatch == MatchMime(arr[1])
      bstr == atob(IF Len(arr) >= 2 THEN arr[2] ELSE <<"u","n","d","e","f","i","n","e","d">>)
  IN  IF ~mimeMatch.matched THEN Thrown
      ELSE IF ~bstr.ok THEN Thrown
      ELSE [ok |-> TRUE, type |-> mimeMatch.group,
            bytes |-> [k \in 1..Len(bstr.bytes) |-> IF k = 1 THEN 0 ELSE bstr.bytes[k]]]

\* dataURLtoFile: the File (type, bytes) a data URL decodes to
dataURLtoFile(dataurl) ==
  LET arr == Split(dataurl, ",")
      mimeMatch == MatchMime(arr[1])
      bstr == atob(IF Len(arr) >= 2 THEN arr[2] ELSE <<"u","n","d","e","f","i","n","e","d">>)
  IN  IF ~mimeMatch.matched THEN Thrown
      ELSE IF ~bstr.ok THEN Thrown
      ELSE [ok |-> TRUE, type |-> mimeMatch.group, bytes |-> bstr.bytes]

CodecIdle ==
  /\ cAsset = [type |-> <<>>, bytes |-> <<>>] /\ cUrl = <<>> /\ cFile = Thrown
  /\ cParsed = [ok |-> FALSE, mimeType |-> <<>>, base64 |-> <<>>] /\ cPhase = "off"

CodecStart ==
  /\ cAsset \in Assets
  /\ cUrl = <<>>
  /\ cFile = Thrown
  /\ cParsed = [ok |-> FALSE, mimeType |-> <<>>, base64 |-> <<>>]
  /\ cPhase = "asset"

Encode ==
  /\ cPhase = "asset"
  /\ cUrl' = fileToDataURL(cAsset)
  /\ cPhase' = "encoded"
  /\ UNCHANGED <<cAsset, cFile, cParsed>>

Decode ==
  /\ cPhase = "encoded"
  /\ cFile' = dataURLtoFile(cUrl)
  /\ cParsed' = parseDataUrl(cUrl)
  /\ cPhase' = "decoded"
  /\ UNCHANGED <<cAsset, cUrl>>

(***************************************************************************)
(* Generation client: the parsers of a backend response.  A response is a  *)
(* transport failure, or an answer without candidates, or a list of parts; *)
(* a part carries inline image data (an image id, 0 for none) or text.     *)
(***************************************************************************)
Imgs == 1..MaxImg
Texts == {"t1"}
ImagePart(i) == [inlineData |-> i, text |-> ""]
TextPart(t) == [inlineData |-> 0, text |-> t]
Parts == {ImagePart(i) : i \in Imgs} \cup {TextPart(t) : t \in Texts}
Responses ==
  {[fails |-> TRUE, candidates |-> FALSE, parts |-> <<>>],
   [fails |-> FALSE, candidates |-> FALSE, parts |-> <<>>]}
  \cup {[fails |-> FALSE, candidates |-> TRUE, parts |-> p] : p \in SeqsUpTo(Parts, MaxParts)}

TransportError == "transport error"
NoImagesError == "The AI failed to generate any images. Please try a different combination of images or prompt."

\* position of the first image part of a part list, 0 if none
RECURSIVE FirstImage(_, _)
FirstImage(parts, from) ==
  IF from > Len(parts) THEN 0
  ELSE IF parts[from].inlineData # 0 THEN from
  ELSE FirstImage(parts, from + 1)

\* generateSurfaceDesign: imageUrl 0 stands for null; threw when the call rejects
generateSurfaceDesign(response) ==
  IF response.fails THEN [threw |-> TRUE, imageUrl |-> 0]
  ELSE LET k == IF response.candidates THEN FirstImage(response.parts, 1) ELSE 0
       IN  [threw |-> FALSE, imageUrl |-> IF k = 0 THEN 0 ELSE response.parts[k].inlineData]

(***************************************************************************)
(* Batch orchestrator: runBatchGeneration launches count member calls,     *)
(* joins them with Promise.all and filters the nulls out.                  *)
(***************************************************************************)
Pending == [kind |-> "pending", imageUrl |-> 0]
NoBatch == [status |-> "none", imageUrls |-> <<>>, error |-> ""]

RECURSIVE FilterImages(_)
FilterImages(results) ==
  IF results = <<>> THEN <<>>
  ELSE (IF Head(results).imageUrl # 0 THEN <<Head(results).imageUrl>> ELSE <<>>)
       \o FilterImages(Tail(results))

\* the continuation of runBatchGeneration after Promise.all resolved with results
BatchJoin(results) ==
  LET imageUrls == FilterImages(results)
  IN  IF Len(imageUrls) = 0
      THEN [status |-> "rejected", imageUrls |-> <<>>, error |-> NoImagesError]
      ELSE [status |-> "fulfilled", imageUrls |-> imageUrls, error |-> ""]

BatchIdle == bCount = 0 /\ bResults = <<>> /\ bBatch = NoBatch

\* runBatchGeneration(prompt, imageFiles, numberOfImages) up to its await
BatchLaunch(n) ==
  /\ bBatch.status = "none"
  /\ bCount' = n
  /\ bResults' = [i \in 1..n |-> Pending]
  /\ bBatch' = [status |-> "pending", imageUrls |-> <<>>, error |-> ""]

\* member call i settles with the parse of its response; Promise.all rejects
\* with the first member rejection and resolves when the last member resolves
MemberSettle(i, response) ==
  /\ i \in 1..bCount
  /\ bResults[i].kind = "pending"
  /\ LET r == generateSurfaceDesign(response)
         settled == [kind |-> IF r.threw THEN "threw" ELSE "returned", imageUrl |-> r.imageUrl]
         results == [bResults EXCEPT ![i] = settled]
     IN  /\ bResults' = results
         /\ bBatch' =
              IF bBatch.status # "pending" THEN bBatch
              ELSE IF r.threw
                THEN [status |-> "rejected", imageUrls |-> <<>>, error |-> TransportError]
              ELSE IF \A k \in 1..bCount : results[k].kind = "returned"
                THEN BatchJoin(results)
              ELSE bBatch
  /\ UNCHANGED bCount

(***************************************************************************)
(* App state.  An ImageState is a file (an image id, 0 for null) and its   *)
(* previewUrl; a data URL is named by the id of the image it encodes.      *)
(* outputImages is null or a non-empty list in the source: <<>> is null.   *)
(***************************************************************************)
EmptyImage == [file |-> 0, previewUrl |-> NULL]
Greeting == [sender |-> "bot", text |-> <<"Hello! How can I assist you with your Bovali design today?">>]
ConfigError == "Configuration Error"

\* JSON.stringify / JSON.parse of the export cache
Stringify(list) == [json |-> list]
Parse(text) == text.json

\* the initial values of useState (App, lines 504-558)
AppState0 ==
  /\ activeTab = "generator"
  /\ generationMode = "PatternAndMaterial"
  /\ renderShot = EmptyImage /\ pattern = EmptyImage /\ materials = <<>>
  /\ outputImages = <<>> /\ loading = FALSE /\ error = NULL
  /\ numberOfVariations = 1
  /\ sourceImage = EmptyImage /\ extractionType = "Pattern" /\ processedImage = 0
  /\ isProcessing = FALSE /\ processingError = NULL
  /\ patternOutline = EmptyImage /\ patternMaterials = <<>> /\ patternReference = EmptyImage
  /\ patternOutput = 0 /\ isPatternGenerating = FALSE /\ patternError = NULL
  /\ isBotTyping = FALSE /\ messages = <<Greeting>>
  /\ renderShotHistory = <<>> /\ patternHistory = <<>> /\ materialHistory = <<>>
  /\ genCalls = <<>> /\ extCalls = <<>> /\ patCalls = <<>> /\ chatCalls = <<>>
  /\ readCalls = {}
  /\ objectURLs = 0
  /\ tileWidth = "" /\ tileHeight = "" /\ tileUnit = "cm"
  /\ sourceWidth = "" /\ sourceHeight = "" /\ sourceUnit = "cm"

\* the App with every variable at its initial value, never mounted
AppIdle ==
  /\ AppState0
  /\ apiKeyError = NULL /\ chatRef = FALSE
  /\ exportedImages = <<>> /\ localStorage = <<>> /\ saveFailed = FALSE
  /\ lastExport = 0

\* the save effect writing list: storage after the write, which throws when ~ok
SaveEffect(storage, list, ok) == IF ok THEN <<Stringify(list)>> ELSE storage

\* the mount effects with a save effect that runs on the first render only
MountStorage_FirstRenderOnly(storage, ok1, ok2) == SaveEffect(storage, <<>>, ok1)

\* the mount effects run on storage: the configuration check, the load effect,
\* the save effect of the first render (exportedImages = []) and, when the load
\* effect set the state, the save effect of the second render
MountStorage(storage, ok1, ok2) ==
  LET first == SaveEffect(storage, <<>>, ok1)
  IN  IF storage # <<>> THEN SaveEffect(first, Parse(storage[1]), ok2) ELSE first

MountFailed(storage, ok1, ok2) == IF storage # <<>> THEN ~ok2 ELSE ~ok1

\* first mount in a browser whose storage has no entry for the key
AppInit(configs, outcomes) ==
  /\ AppState0
  /\ apiKeyError \in configs
  /\ chatRef = (apiKeyError = NULL)
  /\ exportedImages = <<>>
  /\ lastExport = 0
  /\ \E ok \in outcomes :
       /\ localStorage = MountStorage(<<>>, ok, ok)
       /\ saveFailed = MountFailed(<<>>, ok, ok)

(***************************************************************************)
(* Export cache.                                                           *)
(***************************************************************************)
Includes(list, x) == \E k \in 1..Len(list) : list[k] = x

\* the filter with the index counted from 1
RemoveAt_FromOne(list, i) ==
  IF i \in 1..Len(list)
  THEN SubSeq(list, 1, i - 1) \o SubSeq(list, i + 1, Len(list))
  ELSE list

\* prev.filter((_, index) => index !== indexToDelete), index counted from 0
RemoveAt(list, i) ==
  [k \in 1..(Len(list) - (IF i \in 0..(Len(list) - 1) THEN 1 ELSE 0)) |->
     IF k <= i THEN list[k] ELSE list[k + 1]]

\* handleExportImage without the includes test: every export prepends
handleExportImage_AlwaysPrepends(imageUrl, ok) ==
  /\ exportedImages' = <<imageUrl>> \o exportedImages
  /\ localStorage' = SaveEffect(localStorage, exportedImages', ok)
  /\ saveFailed' = ~ok
  /\ lastExport' = imageUrl
  /\ UNCHANGED <<cfgVars, genVars, extVars, patVars, chatVars, histVars, callVars>>
  /\ UNCHANGED dimVars
  /\ UNCHANGED objectURLs

\* handleExportImage written with the history caches' idiom: [...new Set([imageUrl, ...prev])]
handleExportImage_MovesToFront(imageUrl, ok) ==
  /\ exportedImages' = <<imageUrl>> \o SelectSeq(exportedImages, LAMBDA x : x # imageUrl)
  /\ localStorage' = SaveEffect(localStorage, exportedImages', ok)
  /\ saveFailed' = ~ok
  /\ lastExport' = imageUrl
  /\ UNCHANGED <<cfgVars, genVars, extVars, patVars, chatVars, histVars, callVars>>
  /\ UNCHANGED dimVars
  /\ UNCHANGED objectURLs

\* handleExportImage: the updater returns prev itself when the image is there,
\* so the state does not change and the save effect does not run
handleExportImage(imageUrl, ok) ==
  /\ IF Includes(exportedImages, imageUrl)
     THEN UNCHANGED <<exportedImages, localStorage, saveFailed>>
     ELSE /\ exportedImages' = <<imageUrl>> \o exportedImages
          /\ localStorage' = SaveEffect(localStorage, exportedImages', ok)
          /\ saveFailed' = ~ok
  /\ lastExport' = imageUrl
  /\ UNCHANGED <<cfgVars, genVars, extVars, patVars, chatVars, histVars, callVars>>
  /\ UNCHANGED dimVars
  /\ UNCHANGED objectURLs

\* handleDeleteExportedImage with a deletion that is undone when the save throws
handleDeleteExportedImage_UndoneOnFailure(indexToDelete, ok) ==
  /\ exportedImages' = IF ok THEN RemoveAt(exportedImages, indexToDelete) ELSE exportedImages
  /\ localStorage' = SaveEffect(localStorage, exportedImages', ok)
  /\ saveFailed' = ~ok
  /\ lastExport' = 0
  /\ UNCHANGED <<cfgVars, genVars, extVars, patVars, chatVars, histVars, callVars>>
  /\ UNCHANGED dimVars
  /\ UNCHANGED objectURLs

\* handleDeleteExportedImage: filter builds a new array, so the save effect runs
handleDeleteExportedImage(indexToDelete, ok) ==
  /\ exportedImages' = RemoveAt(exportedImages, indexToDelete)
  /\ localStorage' = SaveEffect(localStorage, exportedImages', ok)
  /\ saveFailed' = ~ok
  /\ lastExport' = 0
  /\ UNCHANGED <<cfgVars, genVars, extVars, patVars, chatVars, histVars, callVars>>
  /\ UNCHANGED dimVars
  /\ UNCHANGED objectURLs

\* the page is reloaded: the state is rebuilt from useState's initial values,
\* requests in flight are gone, and the mount effects run on the stored value
Restart(config, ok1, ok2) ==
  /\ activeTab' = "generator"
  /\ generationMode' = "PatternAndMaterial"
  /\ renderShot' = EmptyImage /\ pattern' = EmptyImage /\ materials' = <<>>
  /\ outputImages' = <<>> /\ loading' = FALSE /\ error' = NULL
  /\ numberOfVariations' = 1
  /\ sourceImage' = EmptyImage /\ extractionType' = "Pattern" /\ processedImage' = 0
  /\ isProcessing' = FALSE /\ processingError' = NULL
  /\ patternOutline' = EmptyImage /\ patternMaterials' = <<>>
  /\ patternReference' = EmptyImage
  /\ patternOutput' = 0 /\ isPatternGenerating' = FALSE /\ patternError' = NULL
  /\ isBotTyping' = FALSE /\ messages' = <<Greeting>>
  /\ renderShotHistory' = <<>> /\ patternHistory' = <<>> /\ materialHistory' = <<>>
  /\ genCalls' = <<>> /\ extCalls' = <<>> /\ patCalls' = <<>> /\ chatCalls' = <<>>
  /\ readCalls' = {}
  /\ apiKeyError' = config
  /\ chatRef' = (config = NULL)
  /\ exportedImages' = IF localStorage # <<>> THEN Parse(localStorage[1]) ELSE <<>>
  /\ localStorage' = MountStorage(localStorage, ok1, ok2)
  /\ saveFailed' = MountFailed(localStorage, ok1, ok2)
  /\ lastExport' = 0
  /\ objectURLs' = 0
  /\ tileWidth' = "" /\ tileHeight' = "" /\ tileUnit' = "cm"
  /\ sourceWidth' = "" /\ sourceHeight' = "" /\ sourceUnit' = "cm"

(***************************************************************************)
(* Upload slots, history caches, workflow switches.                        *)
(***************************************************************************)
\* the blob URL store after URL.createObjectURL, after URL.revokeObjectURL (a
\* URL that is no object URL revokes nothing), and after the guarded revoke
\* if (previewUrl && previewUrl.startsWith('blob:')) URL.revokeObjectURL(previewUrl)
createObjectURL(store) == store + 1
revokeObjectURL(store, previewUrl) == IF previewUrl = "blob" /\ store > 0 THEN store - 1 ELSE store
revokeIfBlob(store, previewUrl) ==
  IF previewUrl = "blob" THEN revokeObjectURL(store, previewUrl) ELSE store

\* prevState of a single slot's setter
SlotImage(slot) ==
  CASE slot = "renderShot" -> renderShot
    [] slot = "pattern" -> pattern
    [] slot = "sourceImage" -> sourceImage
    [] slot = "patternOutline" -> patternOutline
    [] slot = "patternReference" -> patternReference

\* setter(prevState => ({ file, previewUrl })) for one of the five single slots
SetSlot(slot, image) ==
  /\ renderShot' = IF slot = "renderShot" THEN image ELSE renderShot
  /\ pattern' = IF slot = "pattern" THEN image ELSE pattern
  /\ sourceImage' = IF slot = "sourceImage" THEN image ELSE sourceImage
  /\ patternOutline' = IF slot = "patternOutline" THEN image ELSE patternOutline
  /\ patternReference' = IF slot = "patternReference" THEN image ELSE patternReference

\* the six resets that follow a select or a remove
ClearOutputs ==
  /\ outputImages' = <<>> /\ error' = NULL
  /\ processedImage' = 0 /\ processingError' = NULL
  /\ patternOutput' = 0 /\ patternError' = NULL

\* [...new Set(list)]: the first occurrence of every element, in order
RECURSIVE Dedupe(_)
Dedupe(list) ==
  IF list = <<>> THEN <<>>
  ELSE LET front == Dedupe(SubSeq(list, 1, Len(list) - 1))
           last == list[Len(list)]
       IN  IF Includes(front, last) THEN front ELSE Append(front, last)

\* the insertion without the Set: a plain prepend
HistoryInsert_Prepends(dataUrl, prev) == <<dataUrl>> \o prev

\* historySetter(prev => [...new Set([dataUrl, ...prev])])
HistoryInsert(dataUrl, prev) == Dedupe(<<dataUrl>> \o prev)

AddToHistory(historyType, dataUrl) ==
  /\ renderShotHistory' = IF historyType = "renderShot"
                          THEN HistoryInsert(dataUrl, renderShotHistory) ELSE renderShotHistory
  /\ patternHistory' = IF historyType = "pattern"
                       THEN HistoryInsert(dataUrl, patternHistory) ELSE patternHistory
  /\ materialHistory' = IF historyType = "material"
                        THEN HistoryInsert(dataUrl, materialHistory) ELSE materialHistory

\* handleImageSelect up to its await; historyType NULL when the uploader passes none
handleImageSelect(file, slot, historyType) ==
  /\ SetSlot(slot, [file |-> file, previewUrl |-> "blob"])
  /\ ClearOutputs
  /\ readCalls' = IF historyType # NULL THEN readCalls \cup {<<historyType, file>>} ELSE readCalls
  /\ UNCHANGED <<cfgVars, generationMode, materials, loading, numberOfVariations,
                 extractionType, isProcessing, patternMaterials, isPatternGenerating,
                 chatVars, histVars, expVars, genCalls, extCalls, patCalls>>
  /\ UNCHANGED dimVars
  /\ objectURLs' = createObjectURL(revokeIfBlob(objectURLs, SlotImage(slot).previewUrl))
  /\ UNCHANGED <<tileWidth, tileHeight>>

\* fileToDataURL settles: the continuation inserts the data URL into the history,
\* or the read failed and the handler's promise rejects
ReadSettle(historyType, file, ok) ==
  /\ <<historyType, file>> \in readCalls
  /\ readCalls' = readCalls \ {<<historyType, file>>}
  /\ IF ok THEN AddToHistory(historyType, file) ELSE UNCHANGED histVars
  /\ UNCHANGED <<cfgVars, genVars, extVars, patVars, chatVars, expVars, genCalls, extCalls,
                 patCalls>>
  /\ UNCHANGED dimVars
  /\ UNCHANGED objectURLs

handleImageRemove(slot) ==
  /\ SetSlot(slot, EmptyImage)
  /\ ClearOutputs
  /\ UNCHANGED <<cfgVars, generationMode, materials, loading, numberOfVariations,
                 extractionType, isProcessing, patternMaterials, isPatternGenerating,
                 chatVars, histVars, expVars, callVars>>
  /\ UNCHANGED dimVars
  /\ objectURLs' = revokeIfBlob(objectURLs, SlotImage(slot).previewUrl)
  /\ UNCHANGED <<tileWidth, tileHeight>>

handleGeneratorMaterialSelect(file) ==
  /\ materials' = Append(materials, [file |-> file, previewUrl |-> "blob"])
  /\ readCalls' = readCalls \cup {<<"material", file>>}
  /\ UNCHANGED <<cfgVars, generationMode, renderShot, pattern, outputImages, loading, error,
                 numberOfVariations, extVars, patVars, chatVars, histVars, expVars,
                 genCalls, extCalls, patCalls>>
  /\ UNCHANGED dimVars
  /\ objectURLs' = createObjectURL(objectURLs)
  /\ UNCHANGED <<tileWidth, tileHeight>>

handleGeneratorMaterialRemove(index) ==
  /\ index \in 0..(Len(materials) - 1)
  /\ materials' = RemoveAt(materials, index)
  /\ UNCHANGED <<cfgVars, generationMode, renderShot, pattern, outputImages, loading, error,
                 numberOfVariations, extVars, patVars, chatVars, histVars, expVars, callVars>>
  /\ UNCHANGED dimVars
  /\ objectURLs' = revokeIfBlob(objectURLs, materials[index + 1].previewUrl)
  /\ UNCHANGED <<tileWidth, tileHeight>>

handlePatternMaterialSelect(file) ==
  /\ patternMaterials' = Append(patternMaterials, [file |-> file, previewUrl |-> "blob"])
  /\ readCalls' = readCalls \cup {<<"material", file>>}
  /\ UNCHANGED <<cfgVars, genVars, extVars, patternOutline, patternReference, patternOutput,
                 isPatternGenerating, patternError, chatVars, histVars, expVars,
                 genCalls, extCalls, patCalls>>
  /\ UNCHANGED dimVars
  /\ objectURLs' = createObjectURL(objectURLs)

handlePatternMaterialRemove(index) ==
  /\ index \in 0..(Len(patternMaterials) - 1)
  /\ patternMaterials' = RemoveAt(patternMaterials, index)
  /\ UNCHANGED <<cfgVars, genVars, extVars, patternOutline, patternReference, patternOutput,
                 isPatternGenerating, patternError, chatVars, histVars, expVars, callVars>>
  /\ UNCHANGED dimVars
  /\ objectURLs' = IF patternMaterials[index + 1].previewUrl # NULL
                   THEN revokeObjectURL(objectURLs, patternMaterials[index + 1].previewUrl)
                   ELSE objectURLs

\* handleHistorySelect with the modal opened by openHistoryModal(activeHistoryType):
\* the slot is set to the data URL itself, nothing is revoked, and only the
\* Generator's output and error are reset
handleHistorySelect(dataUrl, activeHistoryType) ==
  LET imageState == [file |-> dataUrl, previewUrl |-> "data"]
      toGenerator == activeHistoryType = "material" /\ activeTab # "pattern"
  IN  /\ renderShot' = IF activeHistoryType = "renderShot" THEN imageState ELSE renderShot
      /\ pattern' = IF activeHistoryType = "pattern" /\ activeTab # "pattern"
                    THEN imageState ELSE pattern
      /\ patternMaterials' = IF activeHistoryType # "renderShot" /\ activeTab = "pattern"
                             THEN Append(patternMaterials, imageState) ELSE patternMaterials
      /\ materials' = IF toGenerator
                      THEN Append(materials, [file |-> dataUrl, previewUrl |-> "blob"])
                      ELSE materials
      /\ UNCHANGED dimVars
      /\ objectURLs' = IF toGenerator THEN createObjectURL(objectURLs) ELSE objectURLs
      /\ readCalls' = IF toGenerator THEN readCalls \cup {<<"material", dataUrl>>} ELSE readCalls
      /\ outputImages' = <<>> /\ error' = NULL
      /\ UNCHANGED <<cfgVars, generationMode, loading, numberOfVariations, extVars,
                     patternOutline, patternReference, patternOutput, isPatternGenerating,
                     patternError, chatVars, histVars, expVars, genCalls, extCalls, patCalls>>
      /\ UNCHANGED <<tileWidth, tileHeight>>

\* the reset effect without the reset of the style reference
ResetInactive_KeepsReference(changed, tab) ==
  /\ IF changed /\ tab # "extractor"
     THEN sourceImage' = EmptyImage /\ processedImage' = 0 /\ processingError' = NULL
     ELSE UNCHANGED <<sourceImage, processedImage, processingError>>
  /\ IF changed /\ tab # "pattern"
     THEN /\ patternOutline' = EmptyImage /\ patternMaterials' = <<>>
          /\ patternOutput' = 0 /\ patternError' = NULL
     ELSE UNCHANGED <<patternOutline, patternMaterials, patternOutput, patternError>>
  /\ UNCHANGED patternReference

\* the reset effect of [activeTab], run when the tab changed: its branches for
\* the Extractor and for Pattern Studio
ResetInactive(changed, tab) ==
  /\ IF changed /\ tab # "extractor"
     THEN sourceImage' = EmptyImage /\ processedImage' = 0 /\ processingError' = NULL
     ELSE UNCHANGED <<sourceImage, processedImage, processingError>>
  /\ IF changed /\ tab # "pattern"
     THEN /\ patternOutline' = EmptyImage /\ patternMaterials' = <<>>
          /\ patternReference' = EmptyImage /\ patternOutput' = 0 /\ patternError' = NULL
     ELSE UNCHANGED <<patternOutline, patternMaterials, patternReference, patternOutput,
                      patternError>>

\* a tab button: setActiveTab(tab) and the reset effect; a click on the active
\* tab changes no state and runs no effect
SetActiveTab(tab) ==
  /\ tab # activeTab
  /\ activeTab' = tab
  /\ IF tab # "generator"
     THEN /\ renderShot' = EmptyImage /\ pattern' = EmptyImage /\ materials' = <<>>
          /\ outputImages' = <<>> /\ error' = NULL
     ELSE UNCHANGED <<renderShot, pattern, materials, outputImages, error>>
  /\ ResetInactive(TRUE, tab)
  /\ UNCHANGED <<apiKeyError, chatRef, generationMode, loading, numberOfVariations,
                 extractionType, isProcessing, isPatternGenerating, chatVars, histVars,
                 expVars, callVars>>
  /\ UNCHANGED objectURLs
  /\ tileWidth' = (IF tab # "generator" THEN "" ELSE tileWidth)
  /\ tileHeight' = (IF tab # "generator" THEN "" ELSE tileHeight)
  /\ sourceWidth' = (IF tab # "extractor" THEN "" ELSE sourceWidth)
  /\ sourceHeight' = (IF tab # "extractor" THEN "" ELSE sourceHeight)
  /\ UNCHANGED <<tileUnit, sourceUnit>>

\* the reset effect of [generationMode] without its reset of the tile dimensions
SetGenerationMode_KeepsTileDimensions(mode) ==
  /\ mode # generationMode
  /\ generationMode' = mode
  /\ renderShot' = EmptyImage /\ pattern' = EmptyImage /\ materials' = <<>>
  /\ UNCHANGED <<tileWidth, tileHeight>>
  /\ error' = NULL /\ outputImages' = <<>>
  /\ UNCHANGED <<cfgVars, loading, numberOfVariations, extVars, patVars, chatVars, histVars,
                 expVars, callVars>>
  /\ UNCHANGED dimVars
  /\ UNCHANGED objectURLs

\* setGenerationMode(mode) and the reset effect of [generationMode]
SetGenerationMode(mode) ==
  /\ mode # generationMode
  /\ generationMode' = mode
  /\ renderShot' = EmptyImage /\ pattern' = EmptyImage /\ materials' = <<>>
  /\ tileWidth' = "" /\ tileHeight' = ""
  /\ error' = NULL /\ outputImages' = <<>>
  /\ UNCHANGED <<cfgVars, loading, numberOfVariations, extVars, patVars, chatVars, histVars,
                 expVars, callVars>>
  /\ UNCHANGED dimVars
  /\ UNCHANGED objectURLs

\* the tile inputs: setTileWidth(e.target.value), setTileHeight(e.target.value)
SetTileWidth(value) ==
  /\ tileWidth' = value
  /\ UNCHANGED <<cfgVars, generationMode, renderShot, pattern, materials, outputImages,
                 loading, error, numberOfVariations, tileHeight, extVars, patVars, chatVars,
                 histVars, expVars, callVars, objectURLs, dimVars>>

SetTileHeight(value) ==
  /\ tileHeight' = value
  /\ UNCHANGED <<cfgVars, generationMode, renderShot, pattern, materials, outputImages,
                 loading, error, numberOfVariations, tileWidth, extVars, patVars, chatVars,
                 histVars, expVars, callVars, objectURLs, dimVars>>

\* the unit select of the tile dimensions
SetTileUnit(value) ==
  /\ tileUnit' = value
  /\ UNCHANGED <<cfgVars, genVars, extVars, patVars, chatVars, histVars, expVars, callVars,
                 objectURLs, sourceWidth, sourceHeight, sourceUnit>>

\* the dimension inputs of the Extractor and their unit select
SetSourceWidth(value) ==
  /\ sourceWidth' = value
  /\ UNCHANGED <<cfgVars, genVars, extVars, patVars, chatVars, histVars, expVars, callVars,
                 objectURLs, tileUnit, sourceHeight, sourceUnit>>

SetSourceHeight(value) ==
  /\ sourceHeight' = value
  /\ UNCHANGED <<cfgVars, genVars, extVars, patVars, chatVars, histVars, expVars, callVars,
                 objectURLs, tileUnit, sourceWidth, sourceUnit>>

SetSourceUnit(value) ==
  /\ sourceUnit' = value
  /\ UNCHANGED <<cfgVars, genVars, extVars, patVars, chatVars, histVars, expVars, callVars,
                 objectURLs, tileUnit, sourceWidth, sourceHeight>>

\* the count input: Math.max(1, Math.min(4, parseInt(value, 10) || 1))
SetNumberOfVariations(value) ==
  /\ numberOfVariations' = IF value < 1 THEN 1 ELSE IF value > MaxCount THEN MaxCount ELSE value
  /\ UNCHANGED <<cfgVars, generationMode, renderShot, pattern, materials, outputImages,
                 loading, error, extVars, patVars, chatVars, histVars, expVars, callVars>>
  /\ UNCHANGED dimVars
  /\ UNCHANGED objectURLs
  /\ UNCHANGED <<tileWidth, tileHeight>>

SetExtractionType(type) ==
  /\ extractionType' = type
  /\ UNCHANGED <<cfgVars, genVars, sourceImage, processedImage, isProcessing, processingError,
                 patVars, chatVars, histVars, expVars, callVars>>
  /\ UNCHANGED dimVars
  /\ UNCHANGED objectURLs

(***************************************************************************)
(* Generator.                                                              *)
(***************************************************************************)
Without(calls, k) == SubSeq(calls, 1, k - 1) \o SubSeq(calls, k + 1, Len(calls))

\* the parts generateSurfaceDesign sends: one image part per file, in the order
\* of the files, then the instruction text
RequestParts(imageFiles, prompt) ==
  [k \in 1..(Len(imageFiles) + 1) |->
     IF k <= Len(imageFiles) THEN ImagePart(imageFiles[k]) ELSE TextPart(prompt)]

\* the dimensions with a test that one input is enough to pass
tileDimensions_EitherInput ==
  IF tileWidth # "" \/ tileHeight # ""
  THEN <<tileWidth, " x ", tileHeight, " ", tileUnit>>
  ELSE <<>>

\* handleGeneratorSubmit's tileDimensions: `${tileWidth} x ${tileHeight} ${tileUnit}`
\* when both inputs hold text, undefined (<<>>) otherwise
tileDimensions ==
  IF tileWidth # "" /\ tileHeight # ""
  THEN <<tileWidth, " x ", tileHeight, " ", tileUnit>>
  ELSE <<>>

\* handleProcessImage's dimensions
dimensions ==
  IF sourceWidth # "" /\ sourceHeight # ""
  THEN <<sourceWidth, " x ", sourceHeight, " ", sourceUnit>>
  ELSE <<>>

\* the sentences around the dimensions in the instruction of the Generator and
\* of the Extractor
TileLead == "The \"Pattern Image\" represents a single tile with the dimensions "
TileTail == ". Use this information to accurately scale the pattern on the surface."
SourceLead == "The user has specified that the subject in the photo has real-world dimensions of "
SourceTail == ". Ensure the output image accurately reflects this scale."

\* dimensionInstruction: the scaling clause, the empty text without dimensions
dimensionInstruction(lead, given, tail) ==
  IF given # <<>> THEN <<lead>> \o given \o <<tail>> ELSE <<>>

\* the parts of a request of each composition mode; the instruction is the
\* list of its fragments, the surface type being 'flooring'
applyPatternAndMaterial(renderShotFile, patternFile, materialFiles, given) ==
  RequestParts(<<renderShotFile, patternFile>> \o materialFiles,
    <<"Apply the visual pattern from the \"Pattern Image\" to the flooring.",
      IF Len(materialFiles) > 1
      THEN "Then, apply the textures, material properties and color palettes from the \"Material Images\"."
      ELSE "Then, apply the texture, material properties and color palette from the \"Material Image\".">>
    \o dimensionInstruction(TileLead, given, TileTail)
    \o <<"The images are provided after this prompt.">>)

applyPatternOnly(renderShotFile, patternFile, given) ==
  RequestParts(<<renderShotFile, patternFile>>,
    <<"Apply ONLY the visual pattern from the \"Pattern Image\" to the flooring.">>
    \o dimensionInstruction(TileLead, given, TileTail)
    \o <<"The images are provided after this prompt.">>)

applyMaterialOnly(renderShotFile, materialFiles) ==
  RequestParts(<<renderShotFile>> \o materialFiles,
    <<IF Len(materialFiles) > 1
      THEN "Apply ONLY the textures, material properties and color palettes from the \"Material Images\"."
      ELSE "Apply ONLY the texture, material properties and color palette from the \"Material Image\".",
      "The images are provided after this prompt.">>)

\* the parts of a request of the Extractor
extractAndProcessImage(sourceFile, type, given) ==
  RequestParts(<<sourceFile>>,
    <<"Extraction Type: Extract the ", type, ".">>
    \o dimensionInstruction(SourceLead, given, SourceTail)
    \o <<"Output only the processed image. The image is provided after this prompt.">>)

\* the files of the images of a material list that hold a file
FilesOf(list) ==
  LET held == SelectSeq(list, LAMBDA m : m.file # 0)
  IN  [k \in 1..Len(held) |-> held[k].file]

\* what the member calls of a batch of n can settle with, answered from responses
MemberResults(n, responses) == [1..n -> {generateSurfaceDesign(response) : response \in responses}]

\* runBatchGeneration on the results the member calls settle with
runBatchGeneration(results) ==
  IF \E k \in 1..Len(results) : results[k].threw
  THEN [status |-> "rejected", imageUrls |-> <<>>, error |-> TransportError]
  ELSE BatchJoin(results)

\* the slot test without its test of the material list
GeneratorSlotMissing_IgnoresMaterials ==
  CASE generationMode = "PatternAndMaterial" -> renderShot.file = 0 \/ pattern.file = 0
    [] generationMode = "PatternOnly" -> renderShot.file = 0 \/ pattern.file = 0
    [] generationMode = "MaterialOnly" -> renderShot.file = 0

\* the slot test of handleGeneratorSubmit's switch, and the message it throws
GeneratorSlotMissing ==
  LET materialFiles == SelectSeq(materials, LAMBDA m : m.file # 0)
  IN  CASE generationMode = "PatternAndMaterial" ->
             renderShot.file = 0 \/ pattern.file = 0 \/ Len(materialFiles) = 0
        [] generationMode = "PatternOnly" -> renderShot.file = 0 \/ pattern.file = 0
        [] generationMode = "MaterialOnly" -> renderShot.file = 0 \/ Len(materialFiles) = 0

GeneratorMessage(mode) ==
  CASE mode = "PatternAndMaterial" ->
         "Please upload a Render Shot, a Pattern, and at least one Material image."
    [] mode = "PatternOnly" -> "Please upload a Render Shot and a Pattern Image for this mode."
    [] mode = "MaterialOnly" ->
         "Please upload a Render Shot and at least one Material Image for this mode."

\* handleGeneratorSubmit up to its await: a missing slot throws before any call,
\* and catch / finally run in the same turn
handleGeneratorSubmit ==
  /\ apiKeyError = NULL
  /\ outputImages' = <<>>
  /\ IF GeneratorSlotMissing
     THEN /\ error' = GeneratorMessage(generationMode)
          /\ loading' = FALSE
          /\ UNCHANGED genCalls
     ELSE /\ error' = NULL
          /\ loading' = TRUE
          /\ genCalls' = Append(genCalls,
               [n |-> numberOfVariations,
                parts |-> CASE generationMode = "PatternAndMaterial" ->
                                 applyPatternAndMaterial(renderShot.file, pattern.file,
                                                         FilesOf(materials), tileDimensions)
                            [] generationMode = "PatternOnly" ->
                                 applyPatternOnly(renderShot.file, pattern.file,
                                                  tileDimensions)
                            [] generationMode = "MaterialOnly" ->
                                 applyMaterialOnly(renderShot.file, FilesOf(materials))])
  /\ UNCHANGED <<cfgVars, generationMode, renderShot, pattern, materials, numberOfVariations,
                 extVars, patVars, chatVars, histVars, expVars, extCalls, patCalls, readCalls>>
  /\ UNCHANGED dimVars
  /\ UNCHANGED objectURLs
  /\ UNCHANGED <<tileWidth, tileHeight>>

\* the continuation of handleGeneratorSubmit with a result that is dropped
\* when the Generator is not the active workflow
GeneratorSettle_DropsWhenInactive(k, results) ==
  /\ k \in 1..Len(genCalls)
  /\ Len(results) = genCalls[k].n
  /\ LET result == runBatchGeneration(results)
     IN  IF activeTab # "generator"
         THEN UNCHANGED <<outputImages, error>>
         ELSE IF result.status = "fulfilled"
         THEN IF Len(result.imageUrls) > 0
              THEN outputImages' = result.imageUrls /\ UNCHANGED error
              ELSE /\ error' = "Failed to generate image. The AI did not return any images."
                   /\ UNCHANGED outputImages
         ELSE error' = result.error /\ UNCHANGED outputImages
  /\ loading' = FALSE
  /\ genCalls' = Without(genCalls, k)
  /\ UNCHANGED <<cfgVars, generationMode, renderShot, pattern, materials, numberOfVariations,
                 extVars, patVars, chatVars, histVars, expVars, extCalls, patCalls, readCalls>>
  /\ UNCHANGED dimVars
  /\ UNCHANGED objectURLs
  /\ UNCHANGED <<tileWidth, tileHeight>>

\* the batch of call k settles and handleGeneratorSubmit resumes
GeneratorSettle(k, results) ==
  /\ k \in 1..Len(genCalls)
  /\ Len(results) = genCalls[k].n
  /\ LET result == runBatchGeneration(results)
     IN  IF result.status = "fulfilled"
         THEN IF Len(result.imageUrls) > 0
              THEN outputImages' = result.imageUrls /\ UNCHANGED error
              ELSE /\ error' = "Failed to generate image. The AI did not return any images."
                   /\ UNCHANGED outputImages
         ELSE error' = result.error /\ UNCHANGED outputImages
  /\ loading' = FALSE
  /\ genCalls' = Without(genCalls, k)
  /\ UNCHANGED <<cfgVars, generationMode, renderShot, pattern, materials, numberOfVariations,
                 extVars, patVars, chatVars, histVars, expVars, extCalls, patCalls, readCalls>>
  /\ UNCHANGED dimVars
  /\ UNCHANGED objectURLs
  /\ UNCHANGED <<tileWidth, tileHeight>>

(***************************************************************************)
(* Extractor.                                                              *)
(***************************************************************************)
handleProcessImage ==
  /\ apiKeyError = NULL
  /\ IF sourceImage.file = 0
     THEN /\ processingError' = "Please upload an image to process."
          /\ UNCHANGED <<isProcessing, processedImage, extCalls>>
     ELSE /\ isProcessing' = TRUE
          /\ processingError' = NULL
          /\ processedImage' = 0
          /\ extCalls' = Append(extCalls,
               [extractionType |-> extractionType,
                parts |-> extractAndProcessImage(sourceImage.file, extractionType, dimensions)])
  /\ UNCHANGED <<cfgVars, genVars, sourceImage, extractionType, patVars, chatVars, histVars,
                 expVars, genCalls, patCalls, readCalls>>
  /\ UNCHANGED dimVars
  /\ UNCHANGED objectURLs

\* the continuation of handleProcessImage with a catch that also empties the
\* source slot
ProcessSettle_ClearsSourceOnError(k, response) ==
  /\ k \in 1..Len(extCalls)
  /\ LET result == generateSurfaceDesign(response)
     IN  IF result.threw
         THEN /\ processingError' = TransportError /\ sourceImage' = EmptyImage
              /\ UNCHANGED <<processedImage, histVars>>
         ELSE IF result.imageUrl # 0
         THEN /\ processedImage' = result.imageUrl
              /\ AddToHistory(IF extCalls[k].extractionType = "Pattern"
                              THEN "pattern" ELSE "material", result.imageUrl)
              /\ UNCHANGED <<processingError, sourceImage>>
         ELSE /\ processingError' = "Failed to process image. The AI did not return an image."
              /\ UNCHANGED <<processedImage, histVars, sourceImage>>
  /\ isProcessing' = FALSE
  /\ extCalls' = Without(extCalls, k)
  /\ UNCHANGED <<cfgVars, genVars, extractionType, patVars, chatVars, expVars,
                 genCalls, patCalls, readCalls>>
  /\ UNCHANGED dimVars
  /\ UNCHANGED objectURLs

\* extractAndProcessImage of call k settles; extractionType is the one the
\* handler closed over
ProcessSettle(k, response) ==
  /\ k \in 1..Len(extCalls)
  /\ LET result == generateSurfaceDesign(response)
     IN  IF result.threw
         THEN processingError' = TransportError /\ UNCHANGED <<processedImage, histVars>>
         ELSE IF result.imageUrl # 0
         THEN /\ processedImage' = result.imageUrl
              /\ AddToHistory(IF extCalls[k].extractionType = "Pattern"
                              THEN "pattern" ELSE "material", result.imageUrl)
              /\ UNCHANGED processingError
         ELSE /\ processingError' = "Failed to process image. The AI did not return an image."
              /\ UNCHANGED <<processedImage, histVars>>
  /\ isProcessing' = FALSE
  /\ extCalls' = Without(extCalls, k)
  /\ UNCHANGED <<cfgVars, genVars, sourceImage, extractionType, patVars, chatVars, expVars,
                 genCalls, patCalls, readCalls>>
  /\ UNCHANGED dimVars
  /\ UNCHANGED objectURLs

(***************************************************************************)
(* Pattern Studio.                                                         *)
(***************************************************************************)
\* the parts of createFromOutline's request with the reference sent first
createFromOutline_ReferenceFirst(outline, materialFiles, reference) ==
  RequestParts((IF reference # 0 THEN <<reference>> ELSE <<>>) \o <<outline>> \o materialFiles,
               <<"Your task is to create a new surface design based on the provided images.",
                 "The images are provided after this prompt.">>)

\* the parts of createFromOutline's request
createFromOutline(outline, materialFiles, reference) ==
  RequestParts(<<outline>> \o materialFiles \o (IF reference # 0 THEN <<reference>> ELSE <<>>),
               <<"Your task is to create a new surface design based on the provided images.",
                 "The images are provided after this prompt.">>)

handlePatternSubmit ==
  /\ apiKeyError = NULL
  /\ IF patternOutline.file = 0 \/ Len(patternMaterials) = 0
     THEN /\ patternError' = "Please provide a Pattern Outline and at least one Material Image."
          /\ UNCHANGED <<isPatternGenerating, patternOutput, patCalls>>
     ELSE /\ isPatternGenerating' = TRUE
          /\ patternError' = NULL
          /\ patternOutput' = 0
          /\ patCalls' = Append(patCalls,
               [parts |-> createFromOutline(patternOutline.file, FilesOf(patternMaterials),
                                            patternReference.file)])
  /\ UNCHANGED <<cfgVars, genVars, extVars, patternOutline, patternMaterials, patternReference,
                 chatVars, histVars, expVars, genCalls, extCalls, readCalls>>
  /\ UNCHANGED dimVars
  /\ UNCHANGED objectURLs

PatternSettle(k, response) ==
  /\ k \in 1..Len(patCalls)
  /\ LET result == generateSurfaceDesign(response)
     IN  IF result.threw
         THEN patternError' = TransportError /\ UNCHANGED <<patternOutput, histVars>>
         ELSE IF result.imageUrl # 0
         THEN /\ patternOutput' = result.imageUrl
              /\ AddToHistory("pattern", result.imageUrl)
              /\ UNCHANGED patternError
         ELSE /\ patternError' = "The AI failed to generate a pattern. Please try again."
              /\ UNCHANGED <<patternOutput, histVars>>
  /\ isPatternGenerating' = FALSE
  /\ patCalls' = Without(patCalls, k)
  /\ UNCHANGED <<cfgVars, genVars, extVars, patternOutline, patternMaterials, patternReference,
                 chatVars, expVars, genCalls, extCalls, readCalls>>
  /\ UNCHANGED dimVars
  /\ UNCHANGED objectURLs

(***************************************************************************)
(* Send to Generator.  The handler's writes are one batch; the effects of  *)
(* [activeTab] and [generationMode] run after it when their value changed. *)
(***************************************************************************)
handleSendToGenerator(imageUrl, type) ==
  LET imageFile == [file |-> imageUrl, previewUrl |-> "data"]
      mode == IF type = "Pattern" THEN "PatternOnly" ELSE "MaterialOnly"
  IN  /\ imageUrl # 0
      /\ activeTab' = "generator"
      /\ generationMode' = mode
      /\ IF mode # generationMode
         THEN /\ renderShot' = EmptyImage /\ pattern' = EmptyImage /\ materials' = <<>>
              /\ error' = NULL /\ outputImages' = <<>>
         ELSE /\ pattern' = IF type = "Pattern" THEN imageFile ELSE EmptyImage
              /\ materials' = IF type = "Pattern" THEN <<>> ELSE <<imageFile>>
              /\ UNCHANGED <<renderShot, error, outputImages>>
      /\ ResetInactive(activeTab # "generator", "generator")
      /\ UNCHANGED <<apiKeyError, chatRef, loading, numberOfVariations, extractionType,
                     isProcessing, isPatternGenerating, chatVars, histVars, expVars, callVars>>
      /\ UNCHANGED objectURLs
      /\ tileWidth' = (IF mode # generationMode THEN "" ELSE tileWidth)
      /\ tileHeight' = (IF mode # generationMode THEN "" ELSE tileHeight)
      /\ sourceWidth' = (IF activeTab # "generator" THEN "" ELSE sourceWidth)
      /\ sourceHeight' = (IF activeTab # "generator" THEN "" ELSE sourceHeight)
      /\ UNCHANGED <<tileUnit, sourceUnit>>

handleSendPatternToGenerator(imageUrl) ==
  /\ imageUrl # 0
  /\ activeTab' = "generator"
  /\ generationMode' = "PatternOnly"
  /\ IF generationMode # "PatternOnly"
     THEN renderShot' = EmptyImage /\ pattern' = EmptyImage /\ materials' = <<>>
     ELSE /\ pattern' = [file |-> imageUrl, previewUrl |-> "blob"]
          /\ UNCHANGED <<renderShot, materials>>
  /\ outputImages' = <<>> /\ error' = NULL
  /\ processedImage' = 0 /\ processingError' = NULL
  /\ patternOutput' = 0 /\ patternError' = NULL
  /\ sourceImage' = IF activeTab # "generator" THEN EmptyImage ELSE sourceImage
  /\ IF activeTab # "generator"
     THEN patternOutline' = EmptyImage /\ patternMaterials' = <<>> /\ patternReference' = EmptyImage
     ELSE UNCHANGED <<patternOutline, patternMaterials, patternReference>>
  /\ readCalls' = readCalls \cup {<<"pattern", imageUrl>>}
  /\ UNCHANGED <<apiKeyError, chatRef, loading, numberOfVariations, extractionType,
                 isProcessing, isPatternGenerating, chatVars, histVars, expVars,
                 genCalls, extCalls, patCalls>>
  /\ objectURLs' = createObjectURL(revokeIfBlob(objectURLs, pattern.previewUrl))
  /\ tileWidth' = (IF generationMode # "PatternOnly" THEN "" ELSE tileWidth)
  /\ tileHeight' = (IF generationMode # "PatternOnly" THEN "" ELSE tileHeight)
  /\ sourceWidth' = (IF activeTab # "generator" THEN "" ELSE sourceWidth)
  /\ sourceHeight' = (IF activeTab # "generator" THEN "" ELSE sourceHeight)
  /\ UNCHANGED <<tileUnit, sourceUnit>>

(***************************************************************************)
(* Chat.  The text of a turn is a list of fragments.                       *)
(***************************************************************************)
\* editImageWithPrompt returning what it parsed, image or not
editImageWithPrompt_ReturnsTextOnly(response) ==
  LET parts == IF response.candidates THEN response.parts ELSE <<>>
      images == SelectSeq(parts, LAMBDA p : p.inlineData # 0)
      texts == SelectSeq(parts, LAMBDA p : p.inlineData = 0 /\ p.text # "")
  IN  [threw |-> response.fails, message |-> <<TransportError>>,
       imageUrl |-> IF images = <<>> THEN 0 ELSE images[Len(images)].inlineData,
       text |-> IF texts = <<>> THEN "" ELSE texts[Len(texts)].text]

\* editImageWithPrompt on the backend's response: the loop has no break, so
\* the last image part and the last text part are the ones kept
editImageWithPrompt(response) ==
  LET parts == IF response.candidates THEN response.parts ELSE <<>>
      images == SelectSeq(parts, LAMBDA p : p.inlineData # 0)
      texts == SelectSeq(parts, LAMBDA p : p.inlineData = 0 /\ p.text # "")
      imageUrl == IF images = <<>> THEN 0 ELSE images[Len(images)].inlineData
      text == IF texts = <<>> THEN "" ELSE texts[Len(texts)].text
  IN  IF response.fails
      THEN [threw |-> TRUE, message |-> <<TransportError>>, imageUrl |-> 0, text |-> ""]
      ELSE IF imageUrl = 0
      THEN [threw |-> TRUE, imageUrl |-> 0, text |-> "",
            message |-> IF text # ""
                        THEN <<"The AI responded but did not return an image: \"", text, "\"">>
                        ELSE <<"The AI did not return an image for your edit request.">>]
      ELSE [threw |-> FALSE, message |-> <<>>, imageUrl |-> imageUrl, text |-> text]

\* response.text of a dialogue reply: the text parts joined, <<>> for undefined
ResponseText(response) ==
  LET parts == IF response.candidates THEN response.parts ELSE <<>>
      texts == SelectSeq(parts, LAMBDA p : p.inlineData = 0 /\ p.text # "")
  IN  [k \in 1..Len(texts) |-> texts[k].text]

\* handleSendMessage up to its await
\* handleSendMessage without its test of apiKeyError
handleSendMessage_IgnoresConfig(message) ==
  /\ messages' = Append(messages, [sender |-> "user", text |-> <<message>>])
  /\ isBotTyping' = TRUE
  /\ chatCalls' =
       IF activeTab = "generator" /\ Len(outputImages) > 0
       THEN Append(chatCalls, [path |-> "editDesign", image |-> outputImages[1]])
       ELSE IF activeTab = "pattern" /\ patternOutput # 0
       THEN Append(chatCalls, [path |-> "editPattern", image |-> patternOutput])
       ELSE IF chatRef THEN Append(chatCalls, [path |-> "chat", image |-> 0])
       ELSE chatCalls
  /\ UNCHANGED <<cfgVars, genVars, extVars, patVars, histVars, expVars, callVars>>
  /\ UNCHANGED dimVars
  /\ UNCHANGED objectURLs

handleSendMessage(message) ==
  /\ apiKeyError = NULL
  /\ messages' = Append(messages, [sender |-> "user", text |-> <<message>>])
  /\ isBotTyping' = TRUE
  /\ chatCalls' =
       IF activeTab = "generator" /\ Len(outputImages) > 0
       THEN Append(chatCalls, [path |-> "editDesign", image |-> outputImages[1]])
       ELSE IF activeTab = "pattern" /\ patternOutput # 0
       THEN Append(chatCalls, [path |-> "editPattern", image |-> patternOutput])
       ELSE IF chatRef THEN Append(chatCalls, [path |-> "chat", image |-> 0])
       ELSE chatCalls
  /\ UNCHANGED <<cfgVars, genVars, extVars, patVars, histVars, expVars, callVars>>
  /\ UNCHANGED dimVars
  /\ UNCHANGED objectURLs

\* the continuation of handleSendMessage with a catch of the dialogue call
\* that appends no turn
ChatSettle_SilentOnFailure(k, response) ==
  /\ k \in 1..Len(chatCalls)
  /\ LET call == chatCalls[k]
         edit == editImageWithPrompt(response)
         bot(text) == Append(messages, [sender |-> "bot", text |-> text])
     IN  IF call.path = "chat"
         THEN /\ messages' = IF response.fails THEN messages ELSE bot(ResponseText(response))
              /\ UNCHANGED <<outputImages, patternOutput>>
         ELSE IF edit.threw
         THEN /\ messages' = bot(edit.message)
              /\ UNCHANGED <<outputImages, patternOutput>>
         ELSE IF call.path = "editDesign"
         THEN /\ outputImages' = <<edit.imageUrl>>
              /\ messages' = bot(IF edit.text # "" THEN <<edit.text>>
                                 ELSE <<"Of course. Here is the updated design.">>)
              /\ UNCHANGED patternOutput
         ELSE /\ patternOutput' = edit.imageUrl
              /\ messages' = bot(IF edit.text # "" THEN <<edit.text>>
                                 ELSE <<"Of course. Here is the updated pattern.">>)
              /\ UNCHANGED outputImages
  /\ isBotTyping' = FALSE
  /\ chatCalls' = Without(chatCalls, k)
  /\ UNCHANGED <<cfgVars, generationMode, renderShot, pattern, materials, loading, error,
                 numberOfVariations, extVars, patternOutline, patternMaterials,
                 patternReference, isPatternGenerating, patternError, histVars, expVars,
                 callVars>>
  /\ UNCHANGED dimVars
  /\ UNCHANGED objectURLs
  /\ UNCHANGED <<tileWidth, tileHeight>>

\* the continuation of handleSendMessage with an edit of a design that
\* replaces the first image of the batch and keeps the others
ChatSettle_ReplacesFirstOnly(k, response) ==
  /\ k \in 1..Len(chatCalls)
  /\ LET call == chatCalls[k]
         edit == editImageWithPrompt(response)
         bot(text) == Append(messages, [sender |-> "bot", text |-> text])
     IN  IF call.path = "chat"
         THEN /\ messages' = IF response.fails
                             THEN bot(<<"I'm sorry, I encountered an error. Please try again.">>)
                             ELSE bot(ResponseText(response))
              /\ UNCHANGED <<outputImages, patternOutput>>
         ELSE IF edit.threw
         THEN /\ messages' = bot(edit.message)
              /\ UNCHANGED <<outputImages, patternOutput>>
         ELSE IF call.path = "editDesign"
         THEN /\ outputImages' = IF outputImages = <<>> THEN <<edit.imageUrl>>
                                 ELSE [outputImages EXCEPT ![1] = edit.imageUrl]
              /\ messages' = bot(IF edit.text # "" THEN <<edit.text>>
                                 ELSE <<"Of course. Here is the updated design.">>)
              /\ UNCHANGED patternOutput
         ELSE /\ patternOutput' = edit.imageUrl
              /\ messages' = bot(IF edit.text # "" THEN <<edit.text>>
                                 ELSE <<"Of course. Here is the updated pattern.">>)
              /\ UNCHANGED outputImages
  /\ isBotTyping' = FALSE
  /\ chatCalls' = Without(chatCalls, k)
  /\ UNCHANGED <<cfgVars, generationMode, renderShot, pattern, materials, loading, error,
                 numberOfVariations, extVars, patternOutline, patternMaterials,
                 patternReference, isPatternGenerating, patternError, histVars, expVars,
                 callVars>>
  /\ UNCHANGED dimVars
  /\ UNCHANGED objectURLs
  /\ UNCHANGED <<tileWidth, tileHeight>>

\* the backend call of turn k settles and handleSendMessage resumes
ChatSettle(k, response) ==
  /\ k \in 1..Len(chatCalls)
  /\ LET call == chatCalls[k]
         edit == editImageWithPrompt(response)
         bot(text) == Append(messages, [sender |-> "bot", text |-> text])
     IN  IF call.path = "chat"
         THEN /\ messages' = IF response.fails
                             THEN bot(<<"I'm sorry, I encountered an error. Please try again.">>)
                             ELSE bot(ResponseText(response))
              /\ UNCHANGED <<outputImages, patternOutput>>
         ELSE IF edit.threw
         THEN /\ messages' = bot(edit.message)
              /\ UNCHANGED <<outputImages, patternOutput>>
         ELSE IF call.path = "editDesign"
         THEN /\ outputImages' = <<edit.imageUrl>>
              /\ messages' = bot(IF edit.text # "" THEN <<edit.text>>
                                 ELSE <<"Of course. Here is the updated design.">>)
              /\ UNCHANGED patternOutput
         ELSE /\ patternOutput' = edit.imageUrl
              /\ messages' = bot(IF edit.text # "" THEN <<edit.text>>
                                 ELSE <<"Of course. Here is the updated pattern.">>)
              /\ UNCHANGED outputImages
  /\ isBotTyping' = FALSE
  /\ chatCalls' = Without(chatCalls, k)
  /\ UNCHANGED <<cfgVars, generationMode, renderShot, pattern, materials, loading, error,
                 numberOfVariations, extVars, patternOutline, patternMaterials,
                 patternReference, isPatternGenerating, patternError, histVars, expVars,
                 callVars>>
  /\ UNCHANGED dimVars
  /\ UNCHANGED objectURLs
  /\ UNCHANGED <<tileWidth, tileHeight>>

(***************************************************************************)
(* Catalogue browser (DriveCatalogueModal).  The remote store is a fixed   *)
(* tree of folders under the root folder; a folder is named by its id and  *)
(* a file by its id.                                                       *)
(***************************************************************************)
ROOT_FOLDER_ID == "root"

\* listFolders(parentFolderId) and listFiles(parentFolderId) on the store
listFolders(parentFolderId) ==
  CASE parentFolderId = "root" -> <<"A", "B">>
    [] parentFolderId = "A" -> <<"A1">>
    [] OTHER -> <<>>

listFiles(parentFolderId) ==
  CASE parentFolderId = "root" -> <<"r.png">>
    [] parentFolderId = "A" -> <<"a.png">>
    [] parentFolderId = "A1" -> <<"a1.png">>
    [] OTHER -> <<>>

DriveFetchError == "Google Drive API error"
DriveDownloadError == "Failed to download file from Google Drive"

\* the modal never opened
DriveIdle ==
  /\ isOpen = FALSE /\ folderStack = <<>> /\ folders = <<>> /\ files = <<>>
  /\ isLoading = FALSE /\ driveError = NULL /\ selectedFileId = NULL
  /\ fetches = <<>> /\ downloads = <<>>

\* the effect of [folderStack, isOpen] run on an open modal whose stack became
\* stack: fetchContents up to its await
fetchContents(stack) ==
  IF stack = <<>>
  THEN UNCHANGED <<isLoading, driveError, folders, files, fetches>>
  ELSE /\ isLoading' = TRUE
       /\ driveError' = NULL
       /\ folders' = <<>> /\ files' = <<>>
       /\ fetches' = Append(fetches, stack[Len(stack)])

\* the parent sets isOpen: the effect of [isOpen] pushes the root folder and
\* the effect of [folderStack, isOpen] fetches its contents
OpenCatalogue ==
  /\ ~isOpen
  /\ isOpen' = TRUE
  /\ folderStack' = <<ROOT_FOLDER_ID>>
  /\ fetchContents(folderStack')
  /\ UNCHANGED <<selectedFileId, downloads>>

\* onClose: the effect of [isOpen] resets the state; calls in flight go on
CloseCatalogue ==
  /\ isOpen
  /\ isOpen' = FALSE
  /\ folders' = <<>> /\ files' = <<>> /\ folderStack' = <<>>
  /\ driveError' = NULL /\ isLoading' = FALSE
  /\ UNCHANGED <<selectedFileId, fetches, downloads>>

\* handleBreadcrumbClick with a slice that drops the clicked segment too
handleBreadcrumbClick_DropsSegment(index) ==
  /\ folderStack' = SubSeq(folderStack, 1, index)
  /\ fetchContents(folderStack')
  /\ UNCHANGED <<isOpen, selectedFileId, downloads>>

\* handleBreadcrumbClick and the effect of [folderStack, isOpen]
handleBreadcrumbClick(index) ==
  /\ folderStack' = SubSeq(folderStack, 1, index + 1)
  /\ fetchContents(folderStack')
  /\ UNCHANGED <<isOpen, selectedFileId, downloads>>

\* handleFolderClick and the effect of [folderStack, isOpen]
handleFolderClick(folder) ==
  /\ folderStack' = Append(folderStack, folder)
  /\ fetchContents(folderStack')
  /\ UNCHANGED <<isOpen, selectedFileId, downloads>>

\* the Promise.all of fetch k settles and fetchContents resumes
FetchSettle(k, ok) ==
  /\ k \in 1..Len(fetches)
  /\ IF ok
     THEN /\ folders' = listFolders(fetches[k])
          /\ files' = listFiles(fetches[k])
          /\ UNCHANGED driveError
     ELSE /\ driveError' = DriveFetchError
          /\ UNCHANGED <<folders, files>>
  /\ isLoading' = FALSE
  /\ fetches' = Without(fetches, k)
  /\ UNCHANGED <<isOpen, folderStack, selectedFileId, downloads>>

\* handleFileClick up to its await
handleFileClick(file) ==
  /\ selectedFileId' = file
  /\ driveError' = NULL
  /\ downloads' = Append(downloads, file)
  /\ UNCHANGED <<isOpen, folderStack, folders, files, isLoading, fetches>>

\* getDriveFileAsFile of download k settles: the file goes to the parent's
\* onImageSelect, or the error is shown
DownloadSettle(k, ok) ==
  /\ k \in 1..Len(downloads)
  /\ driveError' = IF ok THEN driveError ELSE DriveDownloadError
  /\ selectedFileId' = NULL
  /\ downloads' = Without(downloads, k)
  /\ UNCHANGED <<isOpen, folderStack, folders, files, isLoading, fetches>>

(***************************************************************************)
(* Specifications.                                                         *)
(***************************************************************************)
CodecNext ==
  \/ Encode /\ UNCHANGED <<batchVars, appVars, driveVars>>
  \/ Decode /\ UNCHANGED <<batchVars, appVars, driveVars>>

BatchNext ==
  \/ \E n \in 1..MaxCount : BatchLaunch(n) /\ UNCHANGED <<codecVars, appVars, driveVars>>
  \/ \E i \in 1..MaxCount, response \in Responses :
       MemberSettle(i, response) /\ UNCHANGED <<codecVars, appVars, driveVars>>

ExportImgs == 1..MaxExportImg

ExportNext ==
  \/ \E u \in ExportImgs, ok \in BOOLEAN :
       handleExportImage(u, ok) /\ UNCHANGED <<codecVars, batchVars, driveVars>>
  \/ \E i \in 0..MaxExportImg, ok \in BOOLEAN :
       handleDeleteExportedImage(i, ok) /\ UNCHANGED <<codecVars, batchVars, driveVars>>
  \/ \E ok1 \in BOOLEAN, ok2 \in BOOLEAN :
       Restart(NULL, ok1, ok2) /\ UNCHANGED <<codecVars, batchVars, driveVars>>

CodecInit == CodecStart /\ BatchIdle /\ AppIdle /\ DriveIdle
BatchInit == BatchIdle /\ CodecIdle /\ AppIdle /\ DriveIdle
ExportInit == AppInit({NULL}, BOOLEAN) /\ CodecIdle /\ BatchIdle /\ DriveIdle

SpecCodec == CodecInit /\ [][CodecNext]_vars
SpecBatch == BatchInit /\ [][BatchNext]_vars
SpecExport == ExportInit /\ [][ExportNext]_vars

(***************************************************************************)
(* The three history caches under their insertion sites; a control is      *)
(* available on the tab that renders it, a submit while its button is      *)
(* enabled and no other workflow's call is in flight, a file is selected   *)
(* once the read of the previous one has settled, and an upload needs room *)
(* for its object URL among the MaxHandles the store holds.                *)
(***************************************************************************)
Tabs == {"generator", "extractor", "pattern"}

\* the answers that carry at most one part
OnePartResponses == {response \in Responses : response.candidates /\ Len(response.parts) <= 1}

HistoryNext ==
  \/ \E tab \in Tabs : SetActiveTab(tab) /\ UNCHANGED <<codecVars, batchVars, driveVars>>
  \/ /\ activeTab = "generator" /\ readCalls = {}
     /\ handleImageSelect(1, "renderShot", "renderShot") /\ objectURLs' <= MaxHandles
     /\ UNCHANGED <<codecVars, batchVars, driveVars>>
  \/ /\ activeTab = "extractor"
     /\ handleImageSelect(1, "sourceImage", NULL) /\ objectURLs' <= MaxHandles
     /\ UNCHANGED <<codecVars, batchVars, driveVars>>
  \/ /\ activeTab = "extractor" /\ ~isProcessing /\ sourceImage.file # 0 /\ patCalls = <<>>
     /\ handleProcessImage
     /\ UNCHANGED <<codecVars, batchVars, driveVars>>
  \/ \E response \in OnePartResponses :
       ProcessSettle(1, response) /\ UNCHANGED <<codecVars, batchVars, driveVars>>
  \/ \E file \in 1..MaxFile :
       /\ activeTab = "pattern" /\ readCalls = {}
       /\ handleImageSelect(file, "patternOutline", "pattern") /\ objectURLs' <= MaxHandles
       /\ UNCHANGED <<codecVars, batchVars, driveVars>>
  \/ /\ activeTab = "pattern" /\ patternMaterials = <<>> /\ readCalls = {}
     /\ handlePatternMaterialSelect(1) /\ objectURLs' <= MaxHandles
     /\ UNCHANGED <<codecVars, batchVars, driveVars>>
  \/ /\ activeTab = "pattern" /\ ~isPatternGenerating /\ extCalls = <<>>
     /\ patternOutline.file # 0 /\ Len(patternMaterials) # 0
     /\ handlePatternSubmit
     /\ UNCHANGED <<codecVars, batchVars, driveVars>>
  \/ \E response \in OnePartResponses :
       PatternSettle(1, response) /\ UNCHANGED <<codecVars, batchVars, driveVars>>
  \/ \E read \in readCalls, ok \in BOOLEAN :
       ReadSettle(read[1], read[2], ok) /\ UNCHANGED <<codecVars, batchVars, driveVars>>

HistoryInit == AppInit({NULL}, {TRUE}) /\ CodecIdle /\ BatchIdle /\ DriveIdle

SpecHistory == HistoryInit /\ [][HistoryNext]_vars

(***************************************************************************)
(* The three workflows under their controls, with one file to upload and   *)
(* one image the backend returns.  A control is available on the tab that  *)
(* renders it; a submit handler runs when its workflow is not loading,     *)
(* whatever its slots hold and no other workflow's call is in flight, a    *)
(* file is selected once the read of the previous one has settled, and an  *)
(* upload needs room for its object URL among the MaxHandles the store     *)
(* holds.  The history modal opens from an uploader of the active tab      *)
(* whose history is not empty; the Generator renders the pattern uploader  *)
(* and the material uploader in the modes that use them.                   *)
(***************************************************************************)
Modes == {"PatternAndMaterial", "PatternOnly", "MaterialOnly"}
Slots == {"renderShot", "pattern", "sourceImage", "patternOutline", "patternReference"}

\* where a slot is rendered, and the history type its uploader passes
SlotTab(slot) ==
  CASE slot \in {"renderShot", "pattern"} -> "generator"
    [] slot = "sourceImage" -> "extractor"
    [] slot \in {"patternOutline", "patternReference"} -> "pattern"

\* the Pattern Image uploader is rendered in the modes that use a pattern
SlotShown(slot) == slot = "pattern" => generationMode # "MaterialOnly"

\* the history the modal shows, and the tabs whose uploaders open it
ActiveHistory(activeHistoryType) ==
  CASE activeHistoryType = "renderShot" -> renderShotHistory
    [] activeHistoryType = "pattern" -> patternHistory
    [] activeHistoryType = "material" -> materialHistory

HistoryTabs(activeHistoryType) ==
  IF activeHistoryType = "renderShot" THEN {"generator"} ELSE {"generator", "pattern"}

SlotHistory(slot) ==
  CASE slot = "renderShot" -> "renderShot"
    [] slot \in {"pattern", "patternOutline"} -> "pattern"
    [] slot \in {"sourceImage", "patternReference"} -> NULL

\* a transport failure, an answer without image, an answer with image 1
WorkflowResponses ==
  {response \in Responses :
     Len(response.parts) <= 1 /\ \A k \in 1..Len(response.parts) : response.parts[k].inlineData <= 1}

WorkflowNext ==
  \/ \E tab \in Tabs : SetActiveTab(tab) /\ UNCHANGED <<codecVars, batchVars, driveVars>>
  \/ \E mode \in Modes :
       activeTab = "generator" /\ SetGenerationMode(mode) /\ UNCHANGED <<codecVars, batchVars, driveVars>>
  \/ \E slot \in Slots :
       /\ activeTab = SlotTab(slot) /\ SlotShown(slot) /\ readCalls = {}
       /\ handleImageSelect(1, slot, SlotHistory(slot)) /\ objectURLs' <= MaxHandles
       /\ UNCHANGED <<codecVars, batchVars, driveVars>>
  \/ \E slot \in Slots :
       /\ activeTab = SlotTab(slot) /\ SlotShown(slot)
       /\ handleImageRemove(slot)
       /\ UNCHANGED <<codecVars, batchVars, driveVars>>
  \/ /\ activeTab = "generator" /\ generationMode # "PatternOnly"
     /\ Len(materials) < MaxMaterials /\ readCalls = {}
     /\ handleGeneratorMaterialSelect(1) /\ objectURLs' <= MaxHandles
     /\ UNCHANGED <<codecVars, batchVars, driveVars>>
  \/ /\ activeTab = "generator" /\ generationMode # "PatternOnly"
     /\ handleGeneratorMaterialRemove(0)
     /\ UNCHANGED <<codecVars, batchVars, driveVars>>
  \/ /\ activeTab = "generator" /\ ~loading /\ extCalls = <<>> /\ patCalls = <<>>
     /\ handleGeneratorSubmit
     /\ UNCHANGED <<codecVars, batchVars, driveVars>>
  \/ \E response \in WorkflowResponses :
       GeneratorSettle(1, <<generateSurfaceDesign(response)>>) /\ UNCHANGED <<codecVars, batchVars, driveVars>>
  \/ /\ activeTab = "extractor" /\ ~isProcessing /\ genCalls = <<>> /\ patCalls = <<>>
     /\ handleProcessImage
     /\ UNCHANGED <<codecVars, batchVars, driveVars>>
  \/ \E response \in WorkflowResponses :
       ProcessSettle(1, response) /\ UNCHANGED <<codecVars, batchVars, driveVars>>
  \/ /\ activeTab = "extractor"
     /\ handleSendToGenerator(processedImage, extractionType)
     /\ UNCHANGED <<codecVars, batchVars, driveVars>>
  \/ /\ activeTab = "pattern" /\ Len(patternMaterials) < MaxMaterials /\ readCalls = {}
     /\ handlePatternMaterialSelect(1) /\ objectURLs' <= MaxHandles
     /\ UNCHANGED <<codecVars, batchVars, driveVars>>
  \/ /\ activeTab = "pattern"
     /\ handlePatternMaterialRemove(0)
     /\ UNCHANGED <<codecVars, batchVars, driveVars>>
  \/ /\ activeTab = "pattern" /\ ~isPatternGenerating /\ genCalls = <<>> /\ extCalls = <<>>
     /\ handlePatternSubmit
     /\ UNCHANGED <<codecVars, batchVars, driveVars>>
  \/ \E response \in WorkflowResponses :
       PatternSettle(1, response) /\ UNCHANGED <<codecVars, batchVars, driveVars>>
  \/ /\ activeTab = "pattern" /\ readCalls = {}
     /\ handleSendPatternToGenerator(patternOutput) /\ objectURLs' <= MaxHandles
     /\ UNCHANGED <<codecVars, batchVars, driveVars>>
  \/ \E read \in readCalls, ok \in BOOLEAN :
       ReadSettle(read[1], read[2], ok) /\ UNCHANGED <<codecVars, batchVars, driveVars>>
  \/ \E activeHistoryType \in {"renderShot", "pattern", "material"} :
       \E k \in 1..Len(ActiveHistory(activeHistoryType)) :
         /\ activeTab \in HistoryTabs(activeHistoryType) /\ readCalls = {}
         /\ activeTab = "generator" =>
              /\ activeHistoryType = "pattern" => generationMode # "MaterialOnly"
              /\ activeHistoryType = "material" => generationMode # "PatternOnly"
         /\ Len(materials) < MaxMaterials /\ Len(patternMaterials) < MaxMaterials
         /\ handleHistorySelect(ActiveHistory(activeHistoryType)[k], activeHistoryType)
         /\ objectURLs' <= MaxHandles
         /\ UNCHANGED <<codecVars, batchVars, driveVars>>

WorkflowInit == AppInit({NULL, ConfigError}, {TRUE}) /\ CodecIdle /\ BatchIdle /\ DriveIdle

SpecWorkflow == WorkflowInit /\ [][WorkflowNext]_vars

(***************************************************************************)
(* The chat over the three workflows.  A session starts on a tab whose     *)
(* slots hold file 1; a workflow's submit button is enabled when it is not *)
(* loading and its slots are filled; the chat form sends whenever the user *)
(* submits a turn.                                                         *)
(***************************************************************************)
UserTurns == Len(SelectSeq(messages, LAMBDA m : m.sender = "user"))

\* the App after mount, a click on tab and the uploads of file 1 into the
\* slots of tab, their reads settled
WorkflowReady(tab) ==
  LET image == [file |-> 1, previewUrl |-> "blob"]
      slot(t) == IF tab = t THEN image ELSE EmptyImage
      list(t) == IF tab = t THEN <<image>> ELSE <<>>
  IN  /\ activeTab = tab /\ apiKeyError = NULL /\ chatRef = TRUE
      /\ generationMode = "PatternAndMaterial" /\ numberOfVariations = 1
      /\ tileWidth = "" /\ tileHeight = "" /\ tileUnit = "cm"
      /\ sourceWidth = "" /\ sourceHeight = "" /\ sourceUnit = "cm"
      /\ renderShot = slot("generator") /\ pattern = slot("generator")
      /\ materials = list("generator")
      /\ outputImages = <<>> /\ loading = FALSE /\ error = NULL
      /\ sourceImage = slot("extractor") /\ extractionType = "Pattern"
      /\ processedImage = 0 /\ isProcessing = FALSE /\ processingError = NULL
      /\ patternOutline = slot("pattern") /\ patternMaterials = list("pattern")
      /\ patternReference = EmptyImage /\ patternOutput = 0
      /\ isPatternGenerating = FALSE /\ patternError = NULL
      /\ isBotTyping = FALSE /\ messages = <<Greeting>>
      /\ renderShotHistory = IF tab = "generator" THEN <<1>> ELSE <<>>
      /\ patternHistory = IF tab \in {"generator", "pattern"} THEN <<1>> ELSE <<>>
      /\ materialHistory = IF tab \in {"generator", "pattern"} THEN <<1>> ELSE <<>>
      /\ genCalls = <<>> /\ extCalls = <<>> /\ patCalls = <<>> /\ chatCalls = <<>>
      /\ readCalls = {}
      /\ exportedImages = <<>> /\ lastExport = 0
      /\ localStorage = MountStorage(<<>>, TRUE, TRUE) /\ saveFailed = FALSE
      /\ objectURLs = (CASE tab = "generator" -> 3 [] tab = "extractor" -> 1 [] tab = "pattern" -> 2)

ChatNext ==
  \/ \E tab \in Tabs : SetActiveTab(tab) /\ UNCHANGED <<codecVars, batchVars, driveVars>>
  \/ /\ activeTab = "generator" /\ ~loading /\ ~GeneratorSlotMissing
     /\ handleGeneratorSubmit
     /\ UNCHANGED <<codecVars, batchVars, driveVars>>
  \/ \E value \in 0..(MaxCount + 1) :
       activeTab = "generator" /\ SetNumberOfVariations(value) /\ UNCHANGED <<codecVars, batchVars, driveVars>>
  \/ \E results \in MemberResults(numberOfVariations, WorkflowResponses) :
       GeneratorSettle(1, results) /\ UNCHANGED <<codecVars, batchVars, driveVars>>
  \/ \E type \in {"Pattern", "Material"} :
       activeTab = "extractor" /\ SetExtractionType(type) /\ UNCHANGED <<codecVars, batchVars, driveVars>>
  \/ /\ activeTab = "extractor" /\ ~isProcessing /\ sourceImage.file # 0
     /\ handleProcessImage
     /\ UNCHANGED <<codecVars, batchVars, driveVars>>
  \/ \E response \in WorkflowResponses :
       ProcessSettle(1, response) /\ UNCHANGED <<codecVars, batchVars, driveVars>>
  \/ /\ activeTab = "pattern" /\ ~isPatternGenerating
     /\ patternOutline.file # 0 /\ Len(patternMaterials) # 0
     /\ handlePatternSubmit
     /\ UNCHANGED <<codecVars, batchVars, driveVars>>
  \/ \E response \in WorkflowResponses :
       PatternSettle(1, response) /\ UNCHANGED <<codecVars, batchVars, driveVars>>
  \/ /\ UserTurns < MaxTurns
     /\ handleSendMessage("m1")
     /\ UNCHANGED <<codecVars, batchVars, driveVars>>
  \/ \E k \in 1..MaxTurns, response \in Responses :
       ChatSettle(k, response) /\ UNCHANGED <<codecVars, batchVars, driveVars>>

ChatInit == (\E tab \in Tabs : WorkflowReady(tab)) /\ CodecIdle /\ BatchIdle /\ DriveIdle

SpecChat == ChatInit /\ [][ChatNext]_vars

\* the requests: a workflow whose slots hold distinguishable files, as the
\* uploads leave them when every read into the history has failed
RequestFiles == 1..MaxFile
RequestSlots == {EmptyImage} \cup {[file |-> f, previewUrl |-> "blob"] : f \in RequestFiles}
RequestLists == SeqsUpTo(RequestSlots \ {EmptyImage}, MaxSent)

RequestReady ==
  /\ apiKeyError = NULL /\ chatRef = TRUE
  /\ numberOfVariations = 1 /\ tileWidth = "" /\ tileHeight = "" /\ tileUnit = "cm"
  /\ sourceWidth = "" /\ sourceHeight = "" /\ sourceUnit = "cm"
  /\ outputImages = <<>> /\ loading = FALSE /\ error = NULL
  /\ sourceImage = EmptyImage /\ extractionType = "Pattern"
  /\ processedImage = 0 /\ isProcessing = FALSE /\ processingError = NULL
  /\ patternOutput = 0 /\ isPatternGenerating = FALSE /\ patternError = NULL
  /\ isBotTyping = FALSE /\ messages = <<Greeting>>
  /\ renderShotHistory = <<>> /\ patternHistory = <<>> /\ materialHistory = <<>>
  /\ genCalls = <<>> /\ extCalls = <<>> /\ patCalls = <<>> /\ chatCalls = <<>>
  /\ readCalls = {}
  /\ exportedImages = <<>> /\ lastExport = 0
  /\ localStorage = MountStorage(<<>>, TRUE, TRUE) /\ saveFailed = FALSE
  /\ \/ /\ activeTab = "generator"
        /\ generationMode \in Modes
        /\ renderShot \in RequestSlots /\ pattern \in RequestSlots
        /\ materials \in RequestLists
        /\ patternOutline = EmptyImage /\ patternReference = EmptyImage
        /\ patternMaterials = <<>>
        /\ objectURLs = Len(SelectSeq(<<renderShot, pattern>> \o materials,
                                      LAMBDA image : image.previewUrl = "blob"))
     \/ /\ activeTab = "pattern"
        /\ generationMode = "PatternAndMaterial"
        /\ renderShot = EmptyImage /\ pattern = EmptyImage /\ materials = <<>>
        /\ patternOutline \in RequestSlots /\ patternReference \in RequestSlots
        /\ patternMaterials \in RequestLists
        /\ objectURLs = Len(SelectSeq(<<patternOutline, patternReference>> \o patternMaterials,
                                      LAMBDA image : image.previewUrl = "blob"))

RequestNext ==
  \/ /\ activeTab = "generator" /\ ~loading /\ handleGeneratorSubmit
     /\ UNCHANGED <<codecVars, batchVars, driveVars>>
  \/ /\ \E results \in MemberResults(numberOfVariations, OnePartResponses) :
          GeneratorSettle(1, results)
     /\ UNCHANGED <<codecVars, batchVars, driveVars>>
  \/ /\ activeTab = "generator" /\ \E index \in 0..(Len(materials) - 1) :
          handleGeneratorMaterialRemove(index)
     /\ UNCHANGED <<codecVars, batchVars, driveVars>>
  \/ /\ activeTab = "pattern" /\ ~isPatternGenerating /\ handlePatternSubmit
     /\ UNCHANGED <<codecVars, batchVars, driveVars>>
  \/ /\ \E response \in OnePartResponses : PatternSettle(1, response)
     /\ UNCHANGED <<codecVars, batchVars, driveVars>>
  \/ /\ activeTab = "pattern" /\ \E index \in 0..(Len(patternMaterials) - 1) :
          handlePatternMaterialRemove(index)
     /\ UNCHANGED <<codecVars, batchVars, driveVars>>

RequestInit == RequestReady /\ CodecIdle /\ BatchIdle /\ DriveIdle

SpecRequest == RequestInit /\ [][RequestNext]_vars

(***************************************************************************)
(* The composition modes.  A session starts on a tab whose slots hold file *)
(* 1; the render shot can be uploaded again, the tile inputs are rendered  *)
(* in the modes that use a pattern, a submit button is enabled when its    *)
(* workflow is not loading, its slots are filled and no other workflow's   *)
(* call is in flight, and a displayed design can be exported.              *)
(***************************************************************************)
\* what a tile input holds: nothing or a number
TileValues == {"", "60"}

ModeNext ==
  \/ \E tab \in Tabs \ {"pattern"} : SetActiveTab(tab) /\ UNCHANGED <<codecVars, batchVars, driveVars>>
  \/ \E mode \in Modes :
       activeTab = "generator" /\ SetGenerationMode(mode) /\ UNCHANGED <<codecVars, batchVars, driveVars>>
  \/ \E value \in TileValues :
       /\ activeTab = "generator" /\ generationMode # "MaterialOnly"
       /\ SetTileWidth(value)
       /\ UNCHANGED <<codecVars, batchVars, driveVars>>
  \/ \E value \in TileValues :
       /\ activeTab = "generator" /\ generationMode # "MaterialOnly"
       /\ SetTileHeight(value)
       /\ UNCHANGED <<codecVars, batchVars, driveVars>>
  \/ /\ activeTab = "generator" /\ readCalls = {}
     /\ handleImageSelect(1, "renderShot", "renderShot") /\ objectURLs' <= MaxHandles
     /\ UNCHANGED <<codecVars, batchVars, driveVars>>
  \/ \E read \in readCalls, ok \in BOOLEAN :
       ReadSettle(read[1], read[2], ok) /\ UNCHANGED <<codecVars, batchVars, driveVars>>
  \/ /\ activeTab = "generator" /\ ~loading /\ ~GeneratorSlotMissing /\ extCalls = <<>>
     /\ handleGeneratorSubmit
     /\ UNCHANGED <<codecVars, batchVars, driveVars>>
  \/ \E response \in WorkflowResponses :
       GeneratorSettle(1, <<generateSurfaceDesign(response)>>) /\ UNCHANGED <<codecVars, batchVars, driveVars>>
  \/ \E k \in 1..Len(outputImages) :
       /\ activeTab = "generator"
       /\ handleExportImage(outputImages[k], TRUE)
       /\ UNCHANGED <<codecVars, batchVars, driveVars>>
  \/ \E type \in {"Pattern", "Material"} :
       activeTab = "extractor" /\ SetExtractionType(type) /\ UNCHANGED <<codecVars, batchVars, driveVars>>
  \/ /\ activeTab = "extractor" /\ ~isProcessing /\ sourceImage.file # 0 /\ genCalls = <<>>
     /\ handleProcessImage
     /\ UNCHANGED <<codecVars, batchVars, driveVars>>
  \/ \E response \in WorkflowResponses :
       ProcessSettle(1, response) /\ UNCHANGED <<codecVars, batchVars, driveVars>>
  \/ /\ activeTab = "extractor"
     /\ handleSendToGenerator(processedImage, extractionType)
     /\ UNCHANGED <<codecVars, batchVars, driveVars>>

ModeInit == (\E tab \in Tabs \ {"pattern"} : WorkflowReady(tab)) /\ CodecIdle /\ BatchIdle /\ DriveIdle

SpecMode == ModeInit /\ [][ModeNext]_vars

(***************************************************************************)
(* The chat form.  It renders no disabled state: the user submits a turn   *)
(* whenever the input holds text, MaxBurst turns at most.                  *)
(***************************************************************************)
TurnsNext ==
  \/ \E tab \in Tabs : SetActiveTab(tab) /\ UNCHANGED <<codecVars, batchVars, driveVars>>
  \/ /\ UserTurns < MaxBurst
     /\ handleSendMessage("m1")
     /\ UNCHANGED <<codecVars, batchVars, driveVars>>
  \/ \E k \in 1..MaxBurst, response \in OnePartResponses :
       ChatSettle(k, response) /\ UNCHANGED <<codecVars, batchVars, driveVars>>

TurnsInit == (\E tab \in Tabs : WorkflowReady(tab)) /\ CodecIdle /\ BatchIdle /\ DriveIdle

SpecTurns == TurnsInit /\ [][TurnsNext]_vars

(***************************************************************************)
(* The submit buttons.  A button is rendered on the tab of its workflow    *)
(* and clicks only when it is not disabled; the three workflows can have   *)
(* their calls in flight at the same time.                                 *)
(***************************************************************************)
\* the disabled state of the Generate button without its test of loading
getIsGeneratorButtonDisabled_IgnoresLoading ==
  \/ apiKeyError # NULL
  \/ CASE generationMode = "PatternAndMaterial" ->
             renderShot.file = 0 \/ pattern.file = 0 \/ Len(materials) = 0
        [] generationMode = "PatternOnly" -> renderShot.file = 0 \/ pattern.file = 0
        [] generationMode = "MaterialOnly" -> renderShot.file = 0 \/ Len(materials) = 0

getIsGeneratorButtonDisabled ==
  \/ loading \/ apiKeyError # NULL
  \/ CASE generationMode = "PatternAndMaterial" ->
             renderShot.file = 0 \/ pattern.file = 0 \/ Len(materials) = 0
        [] generationMode = "PatternOnly" -> renderShot.file = 0 \/ pattern.file = 0
        [] generationMode = "MaterialOnly" -> renderShot.file = 0 \/ Len(materials) = 0

getIsExtractorButtonDisabled == isProcessing \/ sourceImage.file = 0 \/ apiKeyError # NULL

getIsPatternButtonDisabled ==
  isPatternGenerating \/ patternOutline.file = 0 \/ Len(patternMaterials) = 0 \/ apiKeyError # NULL

SubmitNext ==
  \/ \E tab \in Tabs : SetActiveTab(tab) /\ UNCHANGED <<codecVars, batchVars, driveVars>>
  \/ \E mode \in Modes :
       activeTab = "generator" /\ SetGenerationMode(mode) /\ UNCHANGED <<codecVars, batchVars, driveVars>>
  \/ \E slot \in Slots \ {"patternReference"} :
       /\ activeTab = SlotTab(slot) /\ SlotShown(slot) /\ readCalls = {}
       /\ handleImageSelect(1, slot, SlotHistory(slot)) /\ objectURLs' <= MaxHandles
       /\ UNCHANGED <<codecVars, batchVars, driveVars>>
  \/ /\ activeTab = "generator" /\ generationMode # "PatternOnly"
     /\ materials = <<>> /\ readCalls = {}
     /\ handleGeneratorMaterialSelect(1) /\ objectURLs' <= MaxHandles
     /\ UNCHANGED <<codecVars, batchVars, driveVars>>
  \/ /\ activeTab = "pattern" /\ patternMaterials = <<>> /\ readCalls = {}
     /\ handlePatternMaterialSelect(1) /\ objectURLs' <= MaxHandles
     /\ UNCHANGED <<codecVars, batchVars, driveVars>>
  \/ \E read \in readCalls :
       ReadSettle(read[1], read[2], TRUE) /\ UNCHANGED <<codecVars, batchVars, driveVars>>
  \/ /\ activeTab = "generator" /\ ~getIsGeneratorButtonDisabled
     /\ handleGeneratorSubmit
     /\ UNCHANGED <<codecVars, batchVars, driveVars>>
  \/ \E response \in WorkflowResponses :
       GeneratorSettle(1, <<generateSurfaceDesign(response)>>)
       /\ UNCHANGED <<codecVars, batchVars, driveVars>>
  \/ /\ activeTab = "extractor" /\ ~getIsExtractorButtonDisabled
     /\ handleProcessImage
     /\ UNCHANGED <<codecVars, batchVars, driveVars>>
  \/ \E response \in WorkflowResponses :
       ProcessSettle(1, response) /\ UNCHANGED <<codecVars, batchVars, driveVars>>
  \/ /\ activeTab = "pattern" /\ ~getIsPatternButtonDisabled
     /\ handlePatternSubmit
     /\ UNCHANGED <<codecVars, batchVars, driveVars>>
  \/ \E response \in WorkflowResponses :
       PatternSettle(1, response) /\ UNCHANGED <<codecVars, batchVars, driveVars>>

SubmitInit == (\E tab \in Tabs : WorkflowReady(tab)) /\ CodecIdle /\ BatchIdle /\ DriveIdle

SpecSubmit == SubmitInit /\ [][SubmitNext]_vars

(***************************************************************************)
(* The chat turns under a backend that answers every call.  The Generator  *)
(* and Pattern Studio can produce the output an edit turn works on; every  *)
(* call of the chat returns or fails, which is the fairness of the settle  *)
(* of a turn.                                                              *)
(***************************************************************************)
\* a transport failure, or an answer of at most two parts
DialogueResponses == {response \in Responses : Len(response.parts) <= 2}

\* the call of some turn in flight returns or fails
TurnSettles ==
  /\ \E k \in 1..MaxBurst, response \in DialogueResponses : ChatSettle(k, response)
  /\ UNCHANGED <<codecVars, batchVars, driveVars>>

DialogueNext ==
  \/ \E tab \in Tabs \ {"extractor"} :
       SetActiveTab(tab) /\ UNCHANGED <<codecVars, batchVars, driveVars>>
  \/ /\ activeTab = "generator" /\ ~loading /\ ~GeneratorSlotMissing
     /\ patCalls = <<>> /\ chatCalls = <<>>
     /\ handleGeneratorSubmit
     /\ UNCHANGED <<codecVars, batchVars, driveVars>>
  \/ \E value \in 1..2 :
       /\ activeTab = "generator" /\ ~loading /\ chatCalls = <<>> /\ outputImages = <<>>
       /\ SetNumberOfVariations(value)
       /\ UNCHANGED <<codecVars, batchVars, driveVars>>
  \/ \E results \in MemberResults(numberOfVariations, WorkflowResponses) :
       GeneratorSettle(1, results) /\ UNCHANGED <<codecVars, batchVars, driveVars>>
  \/ /\ activeTab = "pattern" /\ ~isPatternGenerating
     /\ patternOutline.file # 0 /\ Len(patternMaterials) # 0
     /\ genCalls = <<>> /\ chatCalls = <<>>
     /\ handlePatternSubmit
     /\ UNCHANGED <<codecVars, batchVars, driveVars>>
  \/ \E response \in WorkflowResponses :
       PatternSettle(1, response) /\ UNCHANGED <<codecVars, batchVars, driveVars>>
  \/ /\ UserTurns < MaxBurst
     /\ handleSendMessage("m1")
     /\ UNCHANGED <<codecVars, batchVars, driveVars>>
  \/ TurnSettles

DialogueInit ==
  (\E tab \in Tabs \ {"extractor"} : WorkflowReady(tab)) /\ CodecIdle /\ BatchIdle /\ DriveIdle

SpecDialogue == DialogueInit /\ [][DialogueNext]_vars /\ WF_vars(TurnSettles)

(***************************************************************************)
(* The submit actions with and without a configuration error.  The         *)
(* uploaders work whatever the configuration; a submit handler runs when   *)
(* its workflow is not loading and no other call is in flight.             *)
(***************************************************************************)
\* a transport failure and an answer with image 1
ConfigResponses == {response \in WorkflowResponses : response.fails \/ Len(response.parts) = 1}

NoCallInFlight == genCalls = <<>> /\ extCalls = <<>> /\ patCalls = <<>> /\ chatCalls = <<>>

ConfigNext ==
  \/ \E tab \in Tabs : SetActiveTab(tab) /\ UNCHANGED <<codecVars, batchVars, driveVars>>
  \/ \E slot \in Slots \ {"patternReference"} :
       /\ activeTab = SlotTab(slot) /\ readCalls = {}
       /\ handleImageSelect(1, slot, SlotHistory(slot)) /\ objectURLs' <= MaxHandles
       /\ UNCHANGED <<codecVars, batchVars, driveVars>>
  \/ /\ activeTab = "generator" /\ Len(materials) < MaxMaterials /\ readCalls = {}
     /\ handleGeneratorMaterialSelect(1) /\ objectURLs' <= MaxHandles
     /\ UNCHANGED <<codecVars, batchVars, driveVars>>
  \/ /\ activeTab = "pattern" /\ Len(patternMaterials) < MaxMaterials /\ readCalls = {}
     /\ handlePatternMaterialSelect(1) /\ objectURLs' <= MaxHandles
     /\ UNCHANGED <<codecVars, batchVars, driveVars>>
  \/ \E read \in readCalls :
       ReadSettle(read[1], read[2], TRUE) /\ UNCHANGED <<codecVars, batchVars, driveVars>>
  \/ /\ activeTab = "generator" /\ NoCallInFlight
     /\ handleGeneratorSubmit
     /\ UNCHANGED <<codecVars, batchVars, driveVars>>
  \/ \E response \in ConfigResponses :
       GeneratorSettle(1, <<generateSurfaceDesign(response)>>) /\ UNCHANGED <<codecVars, batchVars, driveVars>>
  \/ /\ activeTab = "extractor" /\ NoCallInFlight
     /\ handleProcessImage
     /\ UNCHANGED <<codecVars, batchVars, driveVars>>
  \/ \E response \in ConfigResponses :
       ProcessSettle(1, response) /\ UNCHANGED <<codecVars, batchVars, driveVars>>
  \/ /\ activeTab = "pattern" /\ NoCallInFlight
     /\ handlePatternSubmit
     /\ UNCHANGED <<codecVars, batchVars, driveVars>>
  \/ \E response \in ConfigResponses :
       PatternSettle(1, response) /\ UNCHANGED <<codecVars, batchVars, driveVars>>
  \/ /\ UserTurns < MaxTurns /\ NoCallInFlight
     /\ handleSendMessage("m1")
     /\ UNCHANGED <<codecVars, batchVars, driveVars>>
  \/ \E response \in ConfigResponses :
       ChatSettle(1, response) /\ UNCHANGED <<codecVars, batchVars, driveVars>>

ConfigInit == AppInit({NULL, ConfigError}, {TRUE}) /\ CodecIdle /\ BatchIdle /\ DriveIdle

SpecConfig == ConfigInit /\ [][ConfigNext]_vars

(***************************************************************************)
(* The catalogue browser.  The breadcrumb is rendered whenever the modal   *)
(* is open, its last segment disabled; the folders and the files are       *)
(* rendered when the modal is neither loading nor showing an error; at     *)
(* most MaxFetch fetches and MaxFetch downloads are in flight.             *)
(***************************************************************************)
ListingShown == isOpen /\ ~isLoading /\ driveError = NULL

CatalogueNext ==
  \/ OpenCatalogue /\ Len(fetches) < MaxFetch /\ UNCHANGED <<codecVars, batchVars, appVars>>
  \/ CloseCatalogue /\ UNCHANGED <<codecVars, batchVars, appVars>>
  \/ \E k \in 1..Len(folders) :
       /\ ListingShown /\ Len(fetches) < MaxFetch
       /\ handleFolderClick(folders[k])
       /\ UNCHANGED <<codecVars, batchVars, appVars>>
  \/ \E index \in 0..(Len(folderStack) - 2) :
       /\ isOpen /\ Len(fetches) < MaxFetch
       /\ handleBreadcrumbClick(index)
       /\ UNCHANGED <<codecVars, batchVars, appVars>>
  \/ \E k \in 1..MaxFetch, ok \in BOOLEAN :
       FetchSettle(k, ok) /\ UNCHANGED <<codecVars, batchVars, appVars>>
  \/ \E k \in 1..Len(files) :
       /\ ListingShown /\ Len(downloads) < MaxFetch
       /\ handleFileClick(files[k])
       /\ UNCHANGED <<codecVars, batchVars, appVars>>
  \/ \E k \in 1..MaxFetch, ok \in BOOLEAN :
       DownloadSettle(k, ok) /\ UNCHANGED <<codecVars, batchVars, appVars>>

CatalogueInit == DriveIdle /\ CodecIdle /\ BatchIdle /\ AppIdle

SpecCatalogue == CatalogueInit /\ [][CatalogueNext]_vars

(***************************************************************************)
(* The instructions of the Generator and of the Extractor.  The slots are  *)
(* filled by the uploaders, the tile inputs are rendered in the modes that *)
(* use a pattern, the dimension inputs of the Extractor on its tab; a      *)
(* submit button is enabled when its workflow is not loading, its slots    *)
(* are filled and no call is in flight.                                    *)
(***************************************************************************)
\* what a dimension input holds: nothing or a number; the units of the selects
DimensionValues == {"", "60", "120"}
Units == {"cm", "inches"}

PromptNext ==
  \/ \E tab \in Tabs \ {"pattern"} : SetActiveTab(tab) /\ UNCHANGED <<codecVars, batchVars, driveVars>>
  \/ \E mode \in Modes :
       activeTab = "generator" /\ SetGenerationMode(mode) /\ UNCHANGED <<codecVars, batchVars, driveVars>>
  \/ \E value \in DimensionValues :
       /\ activeTab = "generator" /\ generationMode # "MaterialOnly"
       /\ SetTileWidth(value)
       /\ UNCHANGED <<codecVars, batchVars, driveVars>>
  \/ \E value \in DimensionValues :
       /\ activeTab = "generator" /\ generationMode # "MaterialOnly"
       /\ SetTileHeight(value)
       /\ UNCHANGED <<codecVars, batchVars, driveVars>>
  \/ \E value \in Units :
       /\ activeTab = "generator" /\ generationMode # "MaterialOnly"
       /\ SetTileUnit(value)
       /\ UNCHANGED <<codecVars, batchVars, driveVars>>
  \/ \E value \in DimensionValues :
       activeTab = "extractor" /\ SetSourceWidth(value) /\ UNCHANGED <<codecVars, batchVars, driveVars>>
  \/ \E value \in DimensionValues :
       activeTab = "extractor" /\ SetSourceHeight(value) /\ UNCHANGED <<codecVars, batchVars, driveVars>>
  \/ \E value \in Units :
       activeTab = "extractor" /\ SetSourceUnit(value) /\ UNCHANGED <<codecVars, batchVars, driveVars>>
  \/ \E slot \in {"renderShot", "pattern", "sourceImage"} :
       /\ activeTab = SlotTab(slot) /\ SlotShown(slot) /\ SlotImage(slot).file = 0
       /\ readCalls = {} /\ NoCallInFlight
       /\ handleImageSelect(1, slot, SlotHistory(slot)) /\ objectURLs' <= MaxHandles
       /\ UNCHANGED <<codecVars, batchVars, driveVars>>
  \/ /\ activeTab = "generator" /\ generationMode # "PatternOnly"
     /\ Len(materials) < MaxMaterials /\ readCalls = {} /\ NoCallInFlight
     /\ handleGeneratorMaterialSelect(1) /\ objectURLs' <= MaxHandles
     /\ UNCHANGED <<codecVars, batchVars, driveVars>>
  \/ \E read \in readCalls :
       ReadSettle(read[1], read[2], TRUE) /\ UNCHANGED <<codecVars, batchVars, driveVars>>
  \/ /\ activeTab = "generator" /\ ~loading /\ ~GeneratorSlotMissing /\ NoCallInFlight
     /\ handleGeneratorSubmit
     /\ UNCHANGED <<codecVars, batchVars, driveVars>>
  \/ \E response \in ConfigResponses :
       GeneratorSettle(1, <<generateSurfaceDesign(response)>>) /\ UNCHANGED <<codecVars, batchVars, driveVars>>
  \/ /\ activeTab = "extractor" /\ ~isProcessing /\ sourceImage.file # 0 /\ NoCallInFlight
     /\ handleProcessImage
     /\ UNCHANGED <<codecVars, batchVars, driveVars>>
  \/ \E response \in ConfigResponses :
       ProcessSettle(1, response) /\ UNCHANGED <<codecVars, batchVars, driveVars>>
  \/ /\ activeTab = "extractor"
     /\ handleSendToGenerator(processedImage, extractionType)
     /\ UNCHANGED <<codecVars, batchVars, driveVars>>

PromptInit == AppInit({NULL}, {TRUE}) /\ CodecIdle /\ BatchIdle /\ DriveIdle

SpecPrompt == PromptInit /\ [][PromptNext]_vars

(***************************************************************************)
(* Claims on the asset encoder / decoder (SpecCodec).                      *)
(***************************************************************************)
RoundTrips ==
  /\ cFile.ok /\ cFile.type = cAsset.type /\ cFile.bytes = cAsset.bytes
  /\ cParsed.ok /\ cParsed.mimeType = cAsset.type
  /\ atob(cParsed.base64) = [ok |-> TRUE, bytes |-> cAsset.bytes]

PlainMime(type) == \A k \in 1..Len(type) : type[k] \notin {";", ","}

\* C3 as stated: encoding any asset to its data URI and decoding it with
\* parseDataUrl / dataURLtoFile gives back the same bytes and the same MIME type.
C3_RoundTripEveryAsset == cPhase = "decoded" => RoundTrips

\* C3 amended: the round trip gives back the same bytes and the same MIME type
\* for every asset whose MIME type contains neither ';' nor ','.
C3_RoundTripPlainMime == (cPhase = "decoded" /\ PlainMime(cAsset.type)) => RoundTrips

C3_Witness ==
  /\ cPhase = "decoded"
  /\ cAsset.type = <<"a", "/", "a">>
  /\ cAsset.bytes = <<255, 77>>
  /\ cFile = [ok |-> TRUE, type |-> <<"a", "/", "a">>, bytes |-> <<255, 77>>]

(***************************************************************************)
(* Claims on the batch orchestrator (SpecBatch).                           *)
(***************************************************************************)
AllMembersSettled == bCount > 0 /\ \A k \in 1..bCount : bResults[k].kind # "pending"
SomeMemberImage == \E k \in 1..bCount : bResults[k].imageUrl # 0

\* C1: once every member call has settled, the batch has failed only if no
\* member produced an image; if some member produced one, the batch returned
\* exactly the members' images in launch order, the other members dropped.
C1_PartialSuccess ==
  AllMembersSettled =>
    /\ bBatch.status \in {"fulfilled", "rejected"}
    /\ bBatch.status = "rejected" => ~SomeMemberImage
    /\ SomeMemberImage =>
         /\ bBatch.status = "fulfilled"
         /\ bBatch.imageUrls # <<>>
         /\ bBatch.imageUrls = FilterImages(bResults)

(***************************************************************************)
(* Claims on the export cache (SpecExport).                                *)
(***************************************************************************)
NoDuplicates(list) == \A i, j \in 1..Len(list) : list[i] = list[j] => i = j

ExportStep(u) == \E ok \in BOOLEAN : handleExportImage(u, ok)
RestartStep == \E ok1 \in BOOLEAN, ok2 \in BOOLEAN : Restart(NULL, ok1, ok2)

\* C7: after any sequence of exports and deletions starting from an empty
\* export cache, the export cache holds no two equal entries.
C7_ExportNoDuplicates == NoDuplicates(exportedImages)

\* an export of an image already in a cache of two entries has just been handled
C7_Witness ==
  /\ lastExport # 0 /\ Len(exportedImages) >= 2
  /\ exportedImages[1] # lastExport /\ Includes(exportedImages, lastExport)

\* C8 as stated: once an export has been handled the exported image is the first
\* entry of the cache (moved to the front if it was there, prepended if not).
C8_ExportedIsFirst == lastExport # 0 => (exportedImages # <<>> /\ exportedImages[1] = lastExport)

\* C8 amended: exporting an image already in the export cache leaves the cache
\* as it was, the entry keeping its position; exporting an absent image prepends it.
C8_ExportKeepsOrPrepends ==
  [][\A u \in ExportImgs : ExportStep(u) =>
       IF Includes(exportedImages, u)
       THEN exportedImages' = exportedImages
       ELSE exportedImages' = <<u>> \o exportedImages]_vars

\* a present image that is not the first entry has been exported, and the cache is full
C8_Witness ==
  /\ lastExport # 0 /\ Len(exportedImages) = MaxExportImg
  /\ exportedImages[MaxExportImg] = lastExport

DeleteStep(i) == \E ok \in BOOLEAN : handleDeleteExportedImage(i, ok)

\* C19: deleting position i (counted from 0) of the export cache removes that
\* entry and keeps the others in their order; an index outside the cache
\* leaves the cache as it was.
C19_DeleteRemovesEntry ==
  [][\A i \in 0..MaxExportImg : DeleteStep(i) =>
       IF i < Len(exportedImages)
       THEN exportedImages' = SubSeq(exportedImages, 1, i)
                                \o SubSeq(exportedImages, i + 2, Len(exportedImages))
       ELSE exportedImages' = exportedImages]_vars

\* a deletion whose save threw has taken the middle entry of a stored cache of
\* three out of the cache in memory
C19_Witness ==
  /\ lastExport = 0 /\ saveFailed /\ localStorage # <<>>
  /\ Len(exportedImages) = 2 /\ Len(Parse(localStorage[1])) = 3
  /\ exportedImages = <<Parse(localStorage[1])[1], Parse(localStorage[1])[3]>>

\* C20: a write of the export cache that throws is not surfaced: the step
\* sets no error, the cache in memory is what the export or the deletion
\* makes of it, the stored value stays, and exports and deletions after a
\* failed write act on the cache in memory as they do after a good one.
C20_SaveFailureSwallowed ==
  [][(saveFailed \/ saveFailed') =>
       /\ \A u \in ExportImgs : ExportStep(u) =>
            exportedImages' = IF Includes(exportedImages, u)
                              THEN exportedImages ELSE <<u>> \o exportedImages
       /\ \A i \in 0..MaxExportImg : DeleteStep(i) =>
            exportedImages' = RemoveAt(exportedImages, i)
       /\ (saveFailed' /\ ~RestartStep) => localStorage' = localStorage
       /\ ~RestartStep => UNCHANGED <<apiKeyError, error, processingError, patternError>>
    ]_vars

\* after a write that threw, an export has prepended its image to a cache in
\* memory that the stored value no longer matches
C20_Witness ==
  /\ saveFailed /\ lastExport # 0 /\ Len(exportedImages) >= 2
  /\ exportedImages[1] = lastExport
  /\ localStorage # <<>> /\ Len(Parse(localStorage[1])) < Len(exportedImages) - 1

(***************************************************************************)
(* Claims on the history caches (SpecHistory).                             *)
(***************************************************************************)
Others(list, x) == SelectSeq(list, LAMBDA y : y # x)

\* after is before with x inserted, in the words of C4
Inserted(x, before, after) ==
  IF Includes(before, x)
  THEN Len(after) = Len(before) /\ after[1] = x /\ Others(after, x) = Others(before, x)
  ELSE after = <<x>> \o before

\* the cache of a history type, before and after a step
HistoryOf(historyType) ==
  CASE historyType = "renderShot" -> <<renderShotHistory, renderShotHistory'>>
    [] historyType = "pattern" -> <<patternHistory, patternHistory'>>
    [] historyType = "material" -> <<materialHistory, materialHistory'>>

\* a settled extraction or pattern call that returned an image, a settled file read
ExtractionInserts == Len(extCalls') < Len(extCalls) /\ processedImage' # 0
PatternInserts == Len(patCalls') < Len(patCalls) /\ patternOutput' # 0
ReadInserts == readCalls' # readCalls /\ readCalls' \subseteq readCalls

NoEqualEntries ==
  /\ NoDuplicates(renderShotHistory)
  /\ NoDuplicates(patternHistory)
  /\ NoDuplicates(materialHistory)

\* C4: an insertion of an asset that is present leaves the size of the cache,
\* makes the asset the first entry and keeps the order of the other entries; an
\* insertion of an absent asset prepends it; at the three insertion sites
\* (a selected file once read, a processed image, a generated pattern), and the
\* caches change at no other step.  Consequently no history cache ever holds
\* two equal entries.
C4_InsertMovesToFront ==
  /\ []NoEqualEntries
  /\ [][/\ ExtractionInserts =>
             IF extCalls[1].extractionType = "Pattern"
             THEN /\ Inserted(processedImage', patternHistory, patternHistory')
                  /\ UNCHANGED <<renderShotHistory, materialHistory>>
             ELSE /\ Inserted(processedImage', materialHistory, materialHistory')
                  /\ UNCHANGED <<renderShotHistory, patternHistory>>
        /\ PatternInserts =>
             /\ Inserted(patternOutput', patternHistory, patternHistory')
             /\ UNCHANGED <<renderShotHistory, materialHistory>>
        /\ \A read \in readCalls \ readCalls' :
             /\ \/ Inserted(read[2], HistoryOf(read[1])[1], HistoryOf(read[1])[2])
                \/ UNCHANGED histVars
             /\ \A other \in {"renderShot", "pattern", "material"} \ {read[1]} :
                  HistoryOf(other)[2] = HistoryOf(other)[1]
        /\ (histVars' # histVars) => (ExtractionInserts \/ PatternInserts \/ ReadInserts)
       ]_vars

\* a generated pattern and then a processed image were inserted as the same
\* asset, the second time into a cache of three entries that held it
C4_Witness ==
  /\ patternOutput # 0 /\ processedImage = patternOutput /\ extractionType = "Pattern"
  /\ Len(patternHistory) = 3 /\ patternHistory[1] = processedImage
  /\ patternHistory[2] > patternHistory[3]
  /\ materialHistory # <<>> /\ renderShotHistory # <<>>

(***************************************************************************)
(* Claims on the workflows (SpecWorkflow).                                 *)
(***************************************************************************)
\* the slots a composition mode requires, one of them empty
RequiredSlotEmpty ==
  \/ renderShot.file = 0
  \/ generationMode \in {"PatternAndMaterial", "PatternOnly"} /\ pattern.file = 0
  \/ generationMode \in {"PatternAndMaterial", "MaterialOnly"} /\ materials = <<>>

NoCallIssued == UNCHANGED <<genCalls, extCalls, patCalls, chatCalls>>

\* C2: in each workflow a submit made while a required slot is empty issues no
\* backend call and ends with the validation message of the workflow (of the
\* composition mode, for the Generator) as its error, and not loading.
C2_EmptySlotSubmitValidates ==
  [][/\ (handleGeneratorSubmit /\ RequiredSlotEmpty) =>
          /\ NoCallIssued
          /\ ~loading'
          /\ generationMode = "PatternAndMaterial" =>
               error' = "Please upload a Render Shot, a Pattern, and at least one Material image."
          /\ generationMode = "PatternOnly" =>
               error' = "Please upload a Render Shot and a Pattern Image for this mode."
          /\ generationMode = "MaterialOnly" =>
               error' = "Please upload a Render Shot and at least one Material Image for this mode."
     /\ (handleProcessImage /\ sourceImage.file = 0) =>
          /\ NoCallIssued
          /\ processingError' = "Please upload an image to process."
          /\ UNCHANGED isProcessing
     /\ (handlePatternSubmit /\ (patternOutline.file = 0 \/ patternMaterials = <<>>)) =>
          /\ NoCallIssued
          /\ patternError' = "Please provide a Pattern Outline and at least one Material Image."
          /\ UNCHANGED isPatternGenerating
    ]_vars

\* a material-only submit with a render shot and no material ended in its message
C2_Witness ==
  /\ generationMode = "MaterialOnly" /\ renderShot.file # 0 /\ materials = <<>>
  /\ error = "Please upload a Render Shot and at least one Material Image for this mode."
  /\ genCalls = <<>> /\ ~loading

GeneratorCleared ==
  /\ renderShot = EmptyImage /\ pattern = EmptyImage /\ materials = <<>>
  /\ outputImages = <<>> /\ error = NULL
ExtractorCleared == sourceImage = EmptyImage /\ processedImage = 0 /\ processingError = NULL
PatternCleared ==
  /\ patternOutline = EmptyImage /\ patternMaterials = <<>> /\ patternReference = EmptyImage
  /\ patternOutput = 0 /\ patternError = NULL

\* what C5 says of a step that makes tab the active workflow
SwitchResets(tab) ==
  /\ tab # "generator" => GeneratorCleared'
  /\ tab # "extractor" => ExtractorCleared'
  /\ tab # "pattern" => PatternCleared'
  /\ tab = "generator" => UNCHANGED <<renderShot, pattern, materials, outputImages>>
  /\ tab = "extractor" => UNCHANGED <<sourceImage, processedImage>>
  /\ tab = "pattern" =>
       UNCHANGED <<patternOutline, patternMaterials, patternReference, patternOutput>>
  /\ UNCHANGED <<histVars, exportedImages>>

\* C5 as stated: every change of the active workflow to a workflow W clears the
\* slots, outputs and errors of the two others, leaves those of W, the history
\* caches and the export cache.
C5_EverySwitchResets == [][activeTab' # activeTab => SwitchResets(activeTab')]_vars

\* C5 for the tab buttons: a change of the active workflow by a tab button
\* clears the slots, outputs and errors of the two other workflows and leaves
\* those of W, the history caches and the export cache.
C5_TabButtonResets == [][\A tab \in Tabs : SetActiveTab(tab) => SwitchResets(tab)]_vars

\* on the Extractor tab with an image processed while it was inactive and a
\* generation still in flight, the Generator and Pattern Studio cleared
C5_Witness ==
  /\ activeTab = "extractor" /\ processedImage # 0 /\ sourceImage = EmptyImage
  /\ genCalls # <<>> /\ GeneratorCleared /\ PatternCleared
  /\ patternHistory # <<>>

(***************************************************************************)
(* Claims on the chat (SpecChat).                                          *)
(***************************************************************************)
\* the answers whose parts are all text, at least one
TextOnlyResponses ==
  {response \in Responses :
     /\ ~response.fails /\ response.candidates /\ response.parts # <<>>
     /\ \A k \in 1..Len(response.parts) :
          response.parts[k].inlineData = 0 /\ response.parts[k].text # ""}

LastMessage == messages[Len(messages)]

\* C6: when the call of an edit turn settles with text and no image,
\* editImageWithPrompt throws an error whose message carries the text, no
\* output slot changes, and one bot turn carrying the text is appended.
C6_TextOnlyEditKeepsOutput ==
  [][\A k \in 1..Len(chatCalls), response \in TextOnlyResponses :
       (chatCalls[k].path # "chat" /\ ChatSettle(k, response)) =>
          LET text == response.parts[Len(response.parts)].text
              edit == editImageWithPrompt(response)
          IN  /\ edit.threw
              /\ \E i \in 1..Len(edit.message) : edit.message[i] = text
              /\ UNCHANGED <<outputImages, processedImage, patternOutput>>
              /\ Len(messages') = Len(messages) + 1
              /\ SubSeq(messages', 1, Len(messages)) = messages
              /\ LastMessage'.sender = "bot"
              /\ \E i \in 1..Len(LastMessage'.text) : LastMessage'.text[i] = text
    ]_vars

\* on the Generator tab the edit of the displayed design ended in the error
\* that carries the text of the backend, the design still displayed
C6_Witness ==
  /\ activeTab = "generator" /\ outputImages = <<1>> /\ chatCalls = <<>>
  /\ LastMessage = [sender |-> "bot",
                    text |-> <<"The AI responded but did not return an image: \"", "t1", "\"">>]
  /\ ~isBotTyping

\* a step that starts a chat turn, the path it takes
TurnStarts == Len(messages') = Len(messages) + 1 /\ LastMessage'.sender = "user"
EntersEdit ==
  /\ Len(chatCalls') = Len(chatCalls) + 1
  /\ chatCalls'[Len(chatCalls')].path \in {"editDesign", "editPattern"}
EntersDialogue ==
  /\ Len(chatCalls') = Len(chatCalls) + 1
  /\ chatCalls'[Len(chatCalls')].path = "chat"

ActiveOutput ==
  CASE activeTab = "generator" -> outputImages # <<>>
    [] activeTab = "extractor" -> processedImage # 0
    [] activeTab = "pattern" -> patternOutput # 0

\* C10: at the start of a chat turn the edit path is entered exactly when the
\* active workflow (Generator, Extractor or Pattern Studio) has an output, and
\* the text goes to the dialogue session otherwise.
C10_EditIffActiveOutput ==
  [][TurnStarts => /\ EntersEdit <=> ActiveOutput
                   /\ EntersDialogue <=> ~ActiveOutput]_vars

(***************************************************************************)
(* Claims on the response parsers (SpecChat).                              *)
(***************************************************************************)
\* the answers with two image parts or more, the image of the first of them
SeveralImageResponses ==
  {response \in Responses :
     Len(SelectSeq(response.parts, LAMBDA p : p.inlineData # 0)) >= 2}

FirstImageOf(response) == SelectSeq(response.parts, LAMBDA p : p.inlineData # 0)[1].inlineData

\* C11: given an answer with several image parts, both parsers return the
\* image of the first image part: the extraction that settles with it displays
\* that image, and so does the edit of a design or of a pattern.
C11_FirstImageWins ==
  [][\A response \in SeveralImageResponses :
       /\ ProcessSettle(1, response) => processedImage' = FirstImageOf(response)
       /\ \A k \in 1..Len(chatCalls) :
            ChatSettle(k, response) =>
              /\ chatCalls[k].path = "editDesign" => outputImages' = <<FirstImageOf(response)>>
              /\ chatCalls[k].path = "editPattern" => patternOutput' = FirstImageOf(response)
    ]_vars

(***************************************************************************)
(* Claims on the order of the request parts (SpecRequest).                 *)
(***************************************************************************)
ImagesSent(parts) == [k \in 1..(Len(parts) - 1) |-> parts[k].inlineData]
TextIsLast(parts) ==
  /\ Len(parts) >= 1
  /\ parts[Len(parts)].inlineData = 0 /\ parts[Len(parts)].text # <<>>
  /\ \A k \in 1..(Len(parts) - 1) : parts[k].inlineData # 0
FilesAfter(images, n) == SubSeq(images, n + 1, Len(images))
SlotFiles(list) == [k \in 1..Len(list) |-> list[k].file]

\* C12: a request of the Generator sends the render shot first, then the
\* pattern if the mode uses one, then the materials in slot order; a request
\* of the Pattern Studio sends the outline first, then the materials in slot
\* order, then the reference if there is one; the instruction text is the
\* last part of either request.
C12_PartsInSlotOrder ==
  [][/\ Len(genCalls') > Len(genCalls) =>
          LET parts == genCalls'[Len(genCalls')].parts
              images == ImagesSent(parts)
          IN  /\ TextIsLast(parts)
              /\ images[1] = renderShot.file
              /\ generationMode = "PatternAndMaterial" =>
                    images[2] = pattern.file /\ FilesAfter(images, 2) = SlotFiles(materials)
              /\ generationMode = "PatternOnly" => images[2] = pattern.file /\ Len(images) = 2
              /\ generationMode = "MaterialOnly" => FilesAfter(images, 1) = SlotFiles(materials)
     /\ Len(patCalls') > Len(patCalls) =>
          LET parts == patCalls'[Len(patCalls')].parts
              images == ImagesSent(parts)
              sent == Len(patternMaterials)
          IN  /\ TextIsLast(parts)
              /\ images[1] = patternOutline.file
              /\ SubSeq(images, 2, sent + 1) = SlotFiles(patternMaterials)
              /\ IF patternReference.file # 0
                 THEN Len(images) = sent + 2 /\ images[sent + 2] = patternReference.file
                 ELSE Len(images) = sent + 1
    ]_vars

\* a Pattern Studio request in flight that carries an outline, two different
\* materials and a reference that differs from the outline
C12_Witness ==
  /\ Len(patCalls) = 1
  /\ Len(patCalls[1].parts) = 5
  /\ patCalls[1].parts[2] # patCalls[1].parts[3]
  /\ patCalls[1].parts[1] # patCalls[1].parts[4]

(***************************************************************************)
(* Claims on the upload slots and the object URLs (SpecWorkflow).          *)
(***************************************************************************)
OutputEmpty(tab) ==
  CASE tab = "generator" -> outputImages = <<>> /\ error = NULL
    [] tab = "extractor" -> processedImage = 0 /\ processingError = NULL
    [] tab = "pattern" -> patternOutput = 0 /\ patternError = NULL
HistoryTypes == {"renderShot", "pattern", "material"}

\* C13: selecting a new image into an upload slot of a workflow (a single
\* slot, a material list of the Generator or of Pattern Studio, or a
\* re-insertion from a history) leaves that workflow's output empty and its
\* error null.
C13_SelectClearsOutput ==
  [][/\ \A slot \in Slots :
          handleImageSelect(1, slot, SlotHistory(slot)) => OutputEmpty(SlotTab(slot))'
     /\ handleGeneratorMaterialSelect(1) => OutputEmpty("generator")'
     /\ handlePatternMaterialSelect(1) => OutputEmpty("pattern")'
     /\ \A activeHistoryType \in HistoryTypes :
          \A k \in 1..Len(ActiveHistory(activeHistoryType)) :
            handleHistorySelect(ActiveHistory(activeHistoryType)[k], activeHistoryType)
              => OutputEmpty(activeTab)'
    ]_vars

\* the store after the release of the object URL of a removed image
Released(image) == IF image.previewUrl = "blob" THEN objectURLs - 1 ELSE objectURLs

\* C14: removing an image from a slot (a single slot or an entry of a
\* material list) releases the object URL of the removed image and leaves
\* that workflow's output empty and its error null.
C14_RemoveReleasesAndClears ==
  [][/\ \A slot \in Slots :
          handleImageRemove(slot) =>
            objectURLs' = Released(SlotImage(slot)) /\ OutputEmpty(SlotTab(slot))'
     /\ \A index \in 0..(Len(materials) - 1) :
          handleGeneratorMaterialRemove(index) =>
            objectURLs' = Released(materials[index + 1]) /\ OutputEmpty("generator")'
     /\ \A index \in 0..(Len(patternMaterials) - 1) :
          handlePatternMaterialRemove(index) =>
            objectURLs' = Released(patternMaterials[index + 1]) /\ OutputEmpty("pattern")'
    ]_vars

\* the object URLs the slots and the material lists hold as previews
HeldURLs ==
  Len(SelectSeq(<<renderShot, pattern, sourceImage, patternOutline, patternReference>>
                  \o materials \o patternMaterials,
                LAMBDA image : image.previewUrl = "blob"))

\* C15: every object URL created for an uploaded file is released when its
\* slot is overwritten or cleared, and only then: the store holds exactly the
\* object URLs the slots hold, whatever selects, removes, history
\* re-insertions, mode changes and workflow switches have run.
C15_StoreHoldsSlotPreviews == objectURLs = HeldURLs

(***************************************************************************)
(* Claims on the composition modes (SpecMode).                             *)
(***************************************************************************)
ModeResets ==
  /\ renderShot' = EmptyImage /\ pattern' = EmptyImage /\ materials' = <<>>
  /\ tileWidth' = "" /\ tileHeight' = ""
  /\ outputImages' = <<>> /\ error' = NULL
  /\ UNCHANGED <<sourceImage, processedImage, patternOutline, patternMaterials,
                 patternReference, patternOutput, histVars, exportedImages, localStorage>>

\* C16 as stated: every change of the Generator's composition mode clears the
\* Generator's render shot, pattern and materials, its tile dimensions, its
\* output and its error, and changes no slot or output of the Extractor or of
\* Pattern Studio, no history cache and not the export cache.
C16_EveryModeChangeResets == [][generationMode' # generationMode => ModeResets]_vars

\* C16 for the mode buttons: a change of the composition mode by a mode button
\* clears the Generator's render shot, pattern and materials, its tile
\* dimensions, its output and its error, and changes no slot or output of the
\* Extractor or of Pattern Studio, no history cache and not the export cache.
C16_ModeButtonResets == [][\A mode \in Modes : SetGenerationMode(mode) => ModeResets]_vars

\* on the Generator tab in another mode than the one a request in flight was
\* built in, the Generator cleared, a history and the export cache not empty
C16_Witness ==
  /\ activeTab = "generator" /\ generationMode = "PatternOnly"
  /\ genCalls # <<>> /\ Len(genCalls[1].parts) = 4
  /\ renderShot = EmptyImage /\ pattern = EmptyImage /\ materials = <<>>
  /\ tileWidth = "" /\ tileHeight = "" /\ outputImages = <<>> /\ error = NULL
  /\ renderShotHistory # <<>> /\ exportedImages # <<>>

(***************************************************************************)
(* Claims on the chat form (SpecTurns).                                    *)
(***************************************************************************)
\* C17: while a chat turn is in flight (isBotTyping is true) no further chat
\* turn is submitted, so at most one chat turn awaits a reply of the backend.
C17_OneTurnInFlight ==
  /\ [](Len(chatCalls) <= 1)
  /\ [][isBotTyping => Len(chatCalls') <= Len(chatCalls)]_vars

(***************************************************************************)
(* Claims on the configuration error (SpecConfig).                         *)
(***************************************************************************)
\* C18: with a configuration error set (apiKeyError not null) no submit
\* action issues a backend call or changes a workflow's or the chat's state:
\* no call is in flight, no workflow is loading, no output and no error is
\* set, and the conversation holds the greeting only.
C18_ConfigErrorBlocksSubmits ==
  apiKeyError # NULL =>
    /\ NoCallInFlight
    /\ ~loading /\ ~isProcessing /\ ~isPatternGenerating /\ ~isBotTyping
    /\ \A tab \in Tabs : OutputEmpty(tab)
    /\ messages = <<Greeting>>

\* a configuration error with every slot a Generator submit needs filled
C18_Witness ==
  /\ apiKeyError # NULL /\ activeTab = "generator"
  /\ renderShot.file # 0 /\ pattern.file # 0 /\ materials # <<>>

(***************************************************************************)
(* Claims on the instructions (SpecPrompt).                                *)
(***************************************************************************)
\* the instruction of a request: the text of its last part
InstructionOf(call) == call.parts[Len(call.parts)].text

\* the clause lead, width x height unit, tail stands in the instruction
HasClause(instruction, lead, width, height, unit, tail) ==
  \E i \in 1..(Len(instruction) - 6) :
    SubSeq(instruction, i, i + 6) = <<lead, width, " x ", height, " ", unit, tail>>

\* no fragment of the instruction belongs to a scaling clause or stands for a
\* missing dimension
NoClause(instruction) ==
  \A i \in 1..Len(instruction) :
    instruction[i] \notin {TileLead, TileTail, SourceLead, SourceTail, " x ", " ", "",
                           "undefined", "null", "cm", "inches", "60", "120"}

\* what C21 says of the instruction built from the inputs width, height, unit
ClauseIffBoth(instruction, lead, width, height, unit, tail) ==
  IF width # "" /\ height # ""
  THEN HasClause(instruction, lead, width, height, unit, tail)
  ELSE NoClause(instruction)

\* C21: the instruction built for a request of the Generator or of the
\* Extractor contains the scaling clause with exactly the entered width, height
\* and unit if and only if both a width and a height were entered; when one is
\* missing no fragment of the clause and no placeholder stands in it.
C21_ScalingClauseIffBothDimensions ==
  [][/\ Len(genCalls') > Len(genCalls) =>
          ClauseIffBoth(InstructionOf(genCalls'[Len(genCalls')]),
                        TileLead, tileWidth, tileHeight, tileUnit, TileTail)
     /\ Len(extCalls') > Len(extCalls) =>
          ClauseIffBoth(InstructionOf(extCalls'[Len(extCalls')]),
                        SourceLead, sourceWidth, sourceHeight, sourceUnit, SourceTail)
    ]_vars

\* a Generator request in flight built with a width, another height and the
\* unit inches, the inputs still holding them
C21_Witness ==
  /\ Len(genCalls) = 1 /\ loading
  /\ tileWidth = "60" /\ tileHeight = "120" /\ tileUnit = "inches"
  /\ HasClause(InstructionOf(genCalls[1]), TileLead, "60", "120", "inches", TileTail)

(***************************************************************************)
(* Claims on the catalogue browser (SpecCatalogue).                        *)
(***************************************************************************)
TopFolder == folderStack[Len(folderStack)]

\* C22: once every fetch in flight has settled, the folders and the files the
\* open catalogue displays are those of the folder on top of the navigation
\* stack, whatever the order in which the fetches settled.
C22_LatestFetchWins ==
  (ListingShown /\ fetches = <<>>) =>
    folders = listFolders(TopFolder) /\ files = listFiles(TopFolder)

\* a step that changes the stack of the open catalogue fetches its new top
StackChangeFetches ==
  (isOpen' /\ folderStack' # folderStack) =>
    /\ fetches' = Append(fetches, folderStack'[Len(folderStack')])
    /\ isLoading'

\* C23: while the catalogue is open its stack is not empty and starts with the
\* root folder; entering a folder appends it, a click on the breadcrumb
\* segment at depth i leaves the first i+1 folders, and every change of the
\* stack starts a fetch of the contents of the new top folder.
C23_StackNavigation ==
  /\ [](isOpen => (folderStack # <<>> /\ folderStack[1] = ROOT_FOLDER_ID))
  /\ [][/\ \A k \in 1..Len(folders) :
            handleFolderClick(folders[k]) =>
              /\ Len(folderStack') = Len(folderStack) + 1
              /\ SubSeq(folderStack', 1, Len(folderStack)) = folderStack
              /\ folderStack'[Len(folderStack')] = folders[k]
        /\ \A index \in 0..(Len(folderStack) - 2) :
            handleBreadcrumbClick(index) =>
              /\ Len(folderStack') = index + 1
              /\ \A j \in 1..(index + 1) : folderStack'[j] = folderStack[j]
        /\ StackChangeFetches
       ]_vars

\* three folders deep, then back to the first folder entered, its fetch in
\* flight with the fetch of the folder left
C23_Witness ==
  /\ isOpen /\ folderStack = <<"root", "A">>
  /\ fetches = <<"A1", "A">> /\ isLoading

(***************************************************************************)
(* Claims on the requests in flight across a workflow switch (SpecChat).   *)
(***************************************************************************)
\* the answers that carry an image, and the image a parser keeps of one
ImageResponses ==
  {response \in Responses : ~response.fails /\ FirstImage(response.parts, 1) # 0}
WorkflowImage(response) == response.parts[FirstImage(response.parts, 1)].inlineData
EditImage(response) ==
  LET images == SelectSeq(response.parts, LAMBDA p : p.inlineData # 0)
  IN  images[Len(images)].inlineData

\* C24: a switch of the active workflow aborts no request in flight and
\* leaves the loading flags; a generation, an extraction, a pattern synthesis
\* or an edit that settles while the workflow that issued it is inactive ends
\* the loading of that workflow (the typing of the bot, for an edit), and when
\* it settles with an image the image is written into the output slot of that
\* workflow.
C24_InFlightSurvivesSwitch ==
  [][/\ activeTab' # activeTab =>
          UNCHANGED <<genCalls, extCalls, patCalls, chatCalls,
                      loading, isProcessing, isPatternGenerating, isBotTyping>>
     /\ (activeTab # "generator" /\ Len(genCalls') < Len(genCalls)) =>
          /\ ~loading'
          /\ error' # NULL \/ (outputImages' # <<>> /\ Len(outputImages') <= genCalls[1].n)
          /\ genCalls[1].n = 1 =>
               \A response \in ImageResponses \cap WorkflowResponses :
                 \/ outputImages' = <<WorkflowImage(response)>>
                 \/ ~GeneratorSettle(1, <<generateSurfaceDesign(response)>>)
     /\ (activeTab # "extractor" /\ Len(extCalls') < Len(extCalls)) =>
          \A response \in ImageResponses \cap WorkflowResponses :
            ProcessSettle(1, response)
              => processedImage' = WorkflowImage(response) /\ ~isProcessing'
     /\ (activeTab # "pattern" /\ Len(patCalls') < Len(patCalls)) =>
          \A response \in ImageResponses \cap WorkflowResponses :
            PatternSettle(1, response)
              => patternOutput' = WorkflowImage(response) /\ ~isPatternGenerating'
     /\ \A k \in 1..Len(chatCalls) :
          /\ (/\ activeTab # "generator" /\ chatCalls[k].path = "editDesign"
              /\ chatCalls' = Without(chatCalls, k)) =>
               /\ ~isBotTyping' /\ Len(messages') = Len(messages) + 1
               /\ \A response \in ImageResponses \cap OnePartResponses :
                    outputImages' = <<EditImage(response)>> \/ ~ChatSettle(k, response)
          /\ (/\ activeTab # "pattern" /\ chatCalls[k].path = "editPattern"
              /\ chatCalls' = Without(chatCalls, k)) =>
               /\ ~isBotTyping' /\ Len(messages') = Len(messages) + 1
               /\ \A response \in ImageResponses \cap OnePartResponses :
                    patternOutput' = EditImage(response) \/ ~ChatSettle(k, response)
    ]_vars

\* on the Extractor tab, the Generator cleared by the switch, its output the
\* image of an edit that was in flight at the switch
C24_Witness ==
  /\ activeTab = "extractor" /\ renderShot = EmptyImage /\ pattern = EmptyImage
  /\ outputImages = <<2>> /\ chatCalls = <<>> /\ ~isBotTyping

(***************************************************************************)
(* Claims on a submit that ends in an error of the backend (SpecChat).     *)
(***************************************************************************)
GeneratorErrors == {NoImagesError, TransportError,
                    "Failed to generate image. The AI did not return any images."}
ExtractorErrors == {TransportError, "Failed to process image. The AI did not return an image."}
PatternErrors == {TransportError, "The AI failed to generate a pattern. Please try again."}

\* C25: a submit that settles with an error of the backend (a batch without
\* image, an answer without image, a transport failure) sets the error string
\* of its workflow to the message of that error and its loading flag to false,
\* leaves the upload slots, the options and the output slot of the workflow as
\* they were, and starts no backend call.
C25_ErrorSettleFrame ==
  [][/\ (Len(genCalls') < Len(genCalls) /\ error' # NULL) =>
          /\ error' \in GeneratorErrors /\ ~loading'
          /\ UNCHANGED <<renderShot, pattern, materials, generationMode, numberOfVariations,
                         tileWidth, tileHeight, tileUnit, outputImages>>
          /\ genCalls' = Without(genCalls, 1)
          /\ UNCHANGED <<extCalls, patCalls, chatCalls>>
     /\ (Len(extCalls') < Len(extCalls) /\ processingError' # NULL) =>
          /\ processingError' \in ExtractorErrors /\ ~isProcessing'
          /\ UNCHANGED <<sourceImage, extractionType, sourceWidth, sourceHeight, sourceUnit,
                         processedImage>>
          /\ extCalls' = Without(extCalls, 1)
          /\ UNCHANGED <<genCalls, patCalls, chatCalls>>
     /\ (Len(patCalls') < Len(patCalls) /\ patternError' # NULL) =>
          /\ patternError' \in PatternErrors /\ ~isPatternGenerating'
          /\ UNCHANGED <<patternOutline, patternMaterials, patternReference, patternOutput>>
          /\ patCalls' = Without(patCalls, 1)
          /\ UNCHANGED <<genCalls, extCalls, chatCalls>>
    ]_vars

\* a submit of the Extractor has failed in transport: the source image is
\* still in its slot, the error is shown and nothing is in flight
C25_Witness ==
  /\ activeTab = "extractor" /\ processingError = TransportError /\ ~isProcessing
  /\ sourceImage.file = 1 /\ processedImage = 0 /\ extCalls = <<>>

(***************************************************************************)
(* Claims on the turns of the chat (SpecDialogue).                         *)
(***************************************************************************)
BotTurns == Len(SelectSeq(messages, LAMBDA m : m.sender = "bot")) - 1

\* C26: a submitted chat turn appends exactly one user turn; the return or
\* the failure of its backend call appends exactly one bot turn and turns the
\* typing indicator off; no turn of the chat is ever removed or reordered;
\* and when every call returns or fails, every turn in flight is answered:
\* the chat comes back to as many bot turns as user turns, nothing in flight
\* and the typing indicator off.
C26_EveryTurnAnswered ==
  /\ [](BotTurns + Len(chatCalls) = UserTurns)
  /\ [][/\ Len(messages') >= Len(messages)
        /\ SubSeq(messages', 1, Len(messages)) = messages
        /\ Len(chatCalls') > Len(chatCalls) =>
             /\ messages' = Append(messages, [sender |-> "user", text |-> <<"m1">>])
             /\ Len(chatCalls') = Len(chatCalls) + 1
        /\ Len(chatCalls') < Len(chatCalls) =>
             /\ Len(messages') = Len(messages) + 1
             /\ messages'[Len(messages')].sender = "bot"
             /\ Len(chatCalls') = Len(chatCalls) - 1
             /\ ~isBotTyping'
        /\ Len(chatCalls') = Len(chatCalls) => messages' = messages
       ]_vars
  /\ (chatCalls # <<>>) ~> (chatCalls = <<>> /\ ~isBotTyping /\ BotTurns = UserTurns)

\* an edit turn and a dialogue turn have both been answered
C26_Witness ==
  /\ UserTurns = 2 /\ BotTurns = 2 /\ chatCalls = <<>> /\ ~isBotTyping
  /\ messages[3].text = <<"Of course. Here is the updated design.">>
  /\ messages[5].text = <<"I'm sorry, I encountered an error. Please try again.">>

(***************************************************************************)
(* Claims on a successful edit turn (SpecDialogue).                        *)
(***************************************************************************)
\* the answers of one or two parts that carry an image, the text of the last
\* text part of an answer
SuccessfulEdits == {response \in ImageResponses : Len(response.parts) <= 2}
EditText(response) ==
  LET texts == SelectSeq(response.parts, LAMBDA p : p.inlineData = 0 /\ p.text # "")
  IN  IF texts = <<>> THEN "" ELSE texts[Len(texts)].text

\* C27: an edit turn is sent from the active workflow with the first image of
\* the Generator's batch, or with the pattern of Pattern Studio; when its call
\* returns an image, the output slot of that workflow is replaced by the new
\* image (the batch of the Generator becomes the list of that one image), no
\* other output slot changes, and one bot turn is appended with the text of
\* the backend or, without one, with the fixed confirmation.
C27_EditReplacesOutput ==
  [][/\ EntersEdit =>
          LET call == chatCalls'[Len(chatCalls')]
          IN  /\ call.path = "editDesign" =>
                   activeTab = "generator" /\ outputImages # <<>> /\ call.image = outputImages[1]
              /\ call.path = "editPattern" =>
                   activeTab = "pattern" /\ call.image = patternOutput
     /\ \A k \in 1..Len(chatCalls) :
          (chatCalls[k].path # "chat" /\ chatCalls' = Without(chatCalls, k)) =>
            \A response \in SuccessfulEdits :
              ChatSettle(k, response) =>
                /\ chatCalls[k].path = "editDesign" =>
                     /\ outputImages' = <<EditImage(response)>>
                     /\ UNCHANGED <<processedImage, patternOutput>>
                     /\ messages' = Append(messages,
                          [sender |-> "bot",
                           text |-> <<IF EditText(response) # "" THEN EditText(response)
                                      ELSE "Of course. Here is the updated design.">>])
                /\ chatCalls[k].path = "editPattern" =>
                     /\ patternOutput' = EditImage(response)
                     /\ UNCHANGED <<processedImage, outputImages>>
                     /\ messages' = Append(messages,
                          [sender |-> "bot",
                           text |-> <<IF EditText(response) # "" THEN EditText(response)
                                      ELSE "Of course. Here is the updated pattern.">>])
    ]_vars

\* on the Generator tab a batch of two designs was edited: the output is the
\* one new image and the bot turn carries the text of the backend
C27_Witness ==
  /\ activeTab = "generator" /\ numberOfVariations = 2 /\ outputImages = <<2>>
  /\ LastMessage = [sender |-> "bot", text |-> <<"t1">>]
  /\ chatCalls = <<>> /\ ~isBotTyping

(***************************************************************************)
(* Claims on 'Send to Generator' (SpecWorkflow).                           *)
(***************************************************************************)
\* C28: after 'Send to Generator' from the Extractor or from Pattern Studio,
\* the reset effects of the step included, the Generator is the active
\* workflow in the mode that matches what was sent (PatternOnly for a pattern,
\* MaterialOnly for a material) and its pattern slot, or its material list,
\* holds the image that was sent, whatever mode the Generator was in before.
C28_SentImageArrives ==
  [][/\ (activeTab = "extractor" /\ handleSendToGenerator(processedImage, extractionType)) =>
          /\ activeTab' = "generator"
          /\ extractionType = "Pattern" =>
               generationMode' = "PatternOnly" /\ pattern'.file = processedImage
          /\ extractionType = "Material" =>
               /\ generationMode' = "MaterialOnly"
               /\ Len(materials') = 1 /\ materials'[1].file = processedImage
     /\ (activeTab = "pattern" /\ handleSendPatternToGenerator(patternOutput)) =>
          /\ activeTab' = "generator" /\ generationMode' = "PatternOnly"
          /\ pattern'.file = patternOutput
    ]_vars

(***************************************************************************)
(* Claims on the submits in flight (SpecChat).                             *)
(***************************************************************************)
\* C29: while a submit of the Generator is in flight (loading is true) the
\* output slot of the Generator is empty, under every interleaving with the
\* edit turns of the chat and the switches of the active workflow.
C29_OutputEmptyWhileLoading == loading => outputImages = <<>>

(***************************************************************************)
(* Claims on the submit buttons (SpecSubmit).                              *)
(***************************************************************************)
\* C30: each workflow has at most one submit in flight: its loading flag is
\* true exactly while its call is in flight, through the switches of the
\* active workflow and the changes of the composition mode, and a submit
\* starts only while the flag is false.
C30_OneSubmitPerWorkflow ==
  /\ [](/\ Len(genCalls) <= 1 /\ loading = (genCalls # <<>>)
        /\ Len(extCalls) <= 1 /\ isProcessing = (extCalls # <<>>)
        /\ Len(patCalls) <= 1 /\ isPatternGenerating = (patCalls # <<>>))
  /\ [][/\ Len(genCalls') > Len(genCalls) => ~loading /\ loading'
        /\ Len(extCalls') > Len(extCalls) => ~isProcessing /\ isProcessing'
        /\ Len(patCalls') > Len(patCalls) => ~isPatternGenerating /\ isPatternGenerating'
        /\ (activeTab' # activeTab \/ generationMode' # generationMode) =>
             UNCHANGED <<loading, isProcessing, isPatternGenerating,
                         genCalls, extCalls, patCalls>>
       ]_vars

\* the submit of the Generator is still in flight after a change of the mode,
\* a switch to Pattern Studio and a submit there
C30_Witness ==
  /\ activeTab = "pattern" /\ generationMode = "MaterialOnly"
  /\ loading /\ Len(genCalls) = 1 /\ isPatternGenerating /\ Len(patCalls) = 1

====
